---- MODULE Spec2Model ----
(***************************************************************************)
(* A model of the wysiwyg composer: the Dom tree with its node handles,    *)
(* the range resolver, text replacement, inline formatting, quoting, the   *)
(* undo/redo history and the toolbar action states.                        *)
(*                                                                         *)
(* Text is a sequence of one-code-unit characters.  Handles are paths of   *)
(* 0-based child indices, as in the source; TLA+ sequences are 1-based, so *)
(* child i of a container is children[i + 1].                              *)
(***************************************************************************)
EXTENDS Integers, Sequences, FiniteSets, TLC

VARIABLES
    dom,              \* ComposerState.dom: the root container
    start,            \* ComposerState.start
    end,              \* ComposerState.end
    previous_states,  \* ComposerModel.previous_states (undo stack)
    next_states,      \* ComposerModel.next_states (redo stack)
    action_states,    \* ComposerModel.action_states
    fault,            \* TRUE once a command has panicked
    last,             \* the last command and the state it started from
    node,             \* a free-standing ContainerNode (container_node.rs tests)
    steps,            \* number of commands issued so far
    toolbar,          \* ComposerModel.active_buttons (menu_state.rs) and the
                      \* MenuState the last command returned
    call              \* a call of a function that takes no ComposerModel:
                      \* its name, its arguments and what it returned

vars == <<dom, start, end, previous_states, next_states, action_states,
          fault, last, node, steps, toolbar, call>>

----------------------------------------------------------------------------
(* Bounds of the exploration *)

MaxCommands == 2     \* commands, undo and redo apart, issued to one composer
MaxTextLen == 5      \* code units of text in the Dom
MaxSel == 3          \* largest offset given to a command
MaxChildren == 3     \* children of the free-standing container

----------------------------------------------------------------------------
(* Small helpers *)

Min(a, b) == IF a < b THEN a ELSE b
Max(a, b) == IF a > b THEN a ELSE b

SeqRemoveAt(s, i) == SubSeq(s, 1, i - 1) \o SubSeq(s, i + 1, Len(s))
SeqInsertAt(s, i, x) == SubSeq(s, 1, i - 1) \o <<x>> \o SubSeq(s, i, Len(s))
\* E(x), with x computed once
With(x, E(_)) == E(x)

\* f as a tuple: a sequence built by a function constructor is made
\* explicit before the sequence operators and EXCEPT see it
AsSeq(f) == SubSeq(f, 1, Len(f))

SeqReverse(s) == AsSeq([i \in 1..Len(s) |-> s[Len(s) + 1 - i]])

RECURSIVE SeqFilterLeaf(_)
SeqFilterLeaf(s) ==
    IF s = <<>> THEN <<>>
    ELSE IF Head(s).is_leaf THEN <<Head(s)>> \o SeqFilterLeaf(Tail(s))
    ELSE SeqFilterLeaf(Tail(s))

----------------------------------------------------------------------------
(* DomHandle *)

new_unset == [set |-> FALSE, path |-> <<>>]
from_raw(path) == [set |-> TRUE, path |-> path]
is_set(h) == h.set
child_handle(h, child_index) == from_raw(Append(h.path, child_index))
parent_handle(h) == from_raw(SubSeq(h.path, 1, Len(h.path) - 1))
has_parent(h) == Len(h.path) > 0
index_in_parent(h) == h.path[Len(h.path)]
next_sibling(h) == child_handle(parent_handle(h), index_in_parent(h) + 1)

----------------------------------------------------------------------------
(* Nodes.  Every node is a record with the same fields:                    *)
(*   t        "text" | "br" | "container"                                  *)
(*   name     the tag a container is written with; "" for the root         *)
(*   kind     container kind: "generic", a format kind, "quote",           *)
(*            "paragraph", "list", "list_item", "link"; "" for leaves      *)
(*   attrs    the attributes a container is written with, as pairs; the    *)
(*            url of a link is its href attribute                          *)
(*   data     the text of a text node                                      *)
(*   children the children of a container                                  *)
(*   handle   the node's DomHandle                                         *)

Zwsp == "~"
FormatKinds == {"bold", "italic"}

new_text(data) ==
    [t |-> "text", name |-> "", kind |-> "", attrs |-> <<>>, data |-> data,
     children |-> <<>>, handle |-> new_unset]
new_line_break ==
    [t |-> "br", name |-> "", kind |-> "", attrs |-> <<>>, data |-> <<>>,
     children |-> <<>>, handle |-> new_unset]
new_container(name, kind, children) ==
    [t |-> "container", name |-> name, kind |-> kind, attrs |-> <<>>,
     data |-> <<>>, children |-> children, handle |-> new_unset]

tag(format) ==
    IF format = "bold" THEN "strong"
    ELSE IF format = "italic" THEN "em"
    ELSE IF format = "strike_through" THEN "del"
    ELSE IF format = "underline" THEN "u"
    ELSE "code"

new_formatting(format, children) == new_container(tag(format), format, children)
\* InlineFormatType::from: the format a tag stands for
from_tag(value) ==
    IF value \in {"b", "strong"} THEN "bold"
    ELSE IF value \in {"i", "em"} THEN "italic"
    ELSE IF value = "del" THEN "strike_through"
    ELSE IF value = "u" THEN "underline"
    ELSE "inline_code"

\* the container keeps the tag it was given as its name
new_formatting_from_tag(format, children) ==
    new_container(format, from_tag(format), children)
new_quote(children) == new_container("blockquote", "quote", children)
new_paragraph(children) == new_container("p", "paragraph", children)
\* list_type is the tag of the list, "ul" or "ol"
new_list(list_type, children) == new_container(list_type, "list", children)
new_list_item(children) == new_container("li", "list_item", children)

\* new_link, had it left the attributes out
new_link_without_attrs(url, children) == new_container("a", "link", children)

new_link(url, children) ==
    [new_container("a", "link", children) EXCEPT
        !.attrs = <<<<"href", url>>>>]

is_formatting_node(n) == n.t = "container" /\ n.kind \in FormatKinds

RECURSIVE text_len(_)
text_len(n) ==
    IF n.t = "text" THEN Len(n.data)
    ELSE IF n.t = "br" THEN 1
    ELSE IF n.children = <<>> THEN 0
    ELSE text_len(Head(n.children))
         + text_len([n EXCEPT !.children = Tail(n.children)])

RECURSIVE to_raw_text(_)
to_raw_text(n) ==
    IF n.t = "text" THEN n.data
    ELSE IF n.t = "br" THEN <<"\n">>
    ELSE IF n.children = <<>> THEN <<>>
    ELSE to_raw_text(Head(n.children))
         \o to_raw_text([n EXCEPT !.children = Tail(n.children)])

is_empty_list_item(n) ==
    /\ n.t = "container" /\ n.kind = "list_item"
    /\ to_raw_text(n) \in {<<>>, <<Zwsp>>}

\* The length the offsets of a selection run over: the text of the nodes,
\* and one trailing newline for a Paragraph that something follows in the
\* document, a sibling or, for the last Paragraph of a block, what comes
\* after the block.  followed: something comes after n.
RECURSIVE text_len_followed(_, _)
text_len_followed(n, followed) ==
    IF n.t # "container" THEN text_len(n)
    ELSE IF n.children = <<>> THEN 0
    ELSE text_len_followed(Head(n.children),
                           followed \/ Len(n.children) > 1)
         + (IF /\ Head(n.children).kind = "paragraph"
               /\ (followed \/ Len(n.children) > 1)
            THEN 1 ELSE 0)
         + text_len_followed([n EXCEPT !.children = Tail(n.children)],
                             followed)

\* Dom::text_len
Dom_text_len(n) == text_len_followed(n, FALSE)

----------------------------------------------------------------------------
(* ToHtml.  The html is a sequence of tokens: one per tag, one per         *)
(* character of text.                                                      *)

Nbsp == "\\u{A0}"

\* str::replace("  ", "\u{A0}\u{A0}"): pairs of spaces, left to right
RECURSIVE ReplaceSpacePairs(_)
ReplaceSpacePairs(data) ==
    IF Len(data) < 2 THEN data
    ELSE IF data[1] = " " /\ data[2] = " "
    THEN <<Nbsp, Nbsp>> \o ReplaceSpacePairs(SubSeq(data, 3, Len(data)))
    ELSE <<data[1]>> \o ReplaceSpacePairs(Tail(data))

TextNode_fmt_html(n, is_last_node_in_parent) ==
    LET escaped == ReplaceSpacePairs(n.data)
    IN  IF /\ is_last_node_in_parent
           /\ escaped # <<>>
           /\ escaped[Len(escaped)] = " "
        THEN SubSeq(escaped, 1, Len(escaped) - 1) \o <<Nbsp>>
        ELSE escaped

RECURSIVE fmt_html(_, _), fmt_html_children(_, _)
RECURSIVE fmt_attrs(_, _)
fmt_attrs(attrs, i) ==
    IF i > Len(attrs) THEN ""
    ELSE " " \o attrs[i][1] \o "=\"" \o attrs[i][2] \o "\""
         \o fmt_attrs(attrs, i + 1)

fmt_html(n, is_last) ==
    IF n.t = "text" THEN TextNode_fmt_html(n, is_last)
    ELSE IF n.t = "br" THEN <<"<br />">>
    ELSE (IF n.name # ""
          THEN <<"<" \o n.name \o fmt_attrs(n.attrs, 1) \o ">">>
          ELSE <<>>)
         \o fmt_html_children(n.children, 1)
         \o (IF n.name # "" THEN <<"</" \o n.name \o ">">> ELSE <<>>)
fmt_html_children(cs, i) ==
    IF i > Len(cs) THEN <<>>
    ELSE fmt_html(cs[i], Len(cs) = i) \o fmt_html_children(cs, i + 1)

to_html(n) == fmt_html(n, FALSE)

----------------------------------------------------------------------------
(* ContainerNode and TextNode: handles are stored in the nodes and are     *)
(* rewritten by every operation that moves a child.                        *)

RECURSIVE set_handle(_, _)
set_handle(n, h) ==
    IF n.t = "container"
    THEN [n EXCEPT !.handle = h,
                   !.children = AsSeq([i \in 1..Len(n.children) |->
                        set_handle(n.children[i], child_handle(h, i - 1))])]
    ELSE [n EXCEPT !.handle = h]

\* children[from..] take the handle of the position they now have
RenumberFrom(c, children, from) ==
    AsSeq([i \in 1..Len(children) |->
        IF i - 1 >= from
        THEN set_handle(children[i], child_handle(c.handle, i - 1))
        ELSE children[i]])

append_child(c, child) ==
    [c EXCEPT !.children =
        Append(c.children,
               set_handle(child, child_handle(c.handle, Len(c.children))))]

\* remove_child without the loop that renumbers the children after index
remove_child_keeps_handles(c, index) ==
    [c EXCEPT !.children = SeqRemoveAt(c.children, index + 1)]

remove_child(c, index) ==
    [c EXCEPT !.children =
        RenumberFrom(c, SeqRemoveAt(c.children, index + 1), index)]

insert_child(c, index, n) ==
    [c EXCEPT !.children =
        RenumberFrom(c, SeqInsertAt(c.children, index + 1, n), index)]

replace_child(c, index, nodes) ==
    [c EXCEPT !.children =
        RenumberFrom(c,
            SubSeq(c.children, 1, index) \o nodes
                \o SubSeq(c.children, index + 2, Len(c.children)),
            index)]

----------------------------------------------------------------------------
(* Dom: lookup by path, and the write-back of a changed node *)

RECURSIVE LookupPath(_, _)
LookupPath(n, p) ==
    IF p = <<>> THEN n ELSE LookupPath(n.children[p[1] + 1], Tail(p))

RECURSIVE ContainsPath(_, _)
ContainsPath(n, p) ==
    IF p = <<>> THEN TRUE
    ELSE /\ n.t = "container"
         /\ p[1] < Len(n.children)
         /\ ContainsPath(n.children[p[1] + 1], Tail(p))

lookup_node(d, h) == LookupPath(d, h.path)
contains(d, h) == ContainsPath(d, h.path)

\* the effect of changing, through lookup_node_mut, the node at path p
RECURSIVE StoreAt(_, _, _)
StoreAt(n, p, new) ==
    IF p = <<>> THEN new
    ELSE [n EXCEPT !.children[p[1] + 1] = StoreAt(@, Tail(p), new)]

store_node(d, h, new) == StoreAt(d, h.path, new)

Dom_new == set_handle(new_container("", "generic", <<>>), from_raw(<<>>))
Dom_append_child(d, child) == append_child(d, child)
Dom_replace(d, h, nodes) ==
    store_node(d, parent_handle(h),
               replace_child(lookup_node(d, parent_handle(h)),
                             index_in_parent(h), nodes))

----------------------------------------------------------------------------
(* Range resolver (Dom::find_range).  A location is a record               *)
(*   [node_handle, position, start_offset, end_offset, length, is_leaf,    *)
(*    kind]                                                                *)
(* Locations come in document order, a container after the nodes below it. *)

IsPrefix(p, q) == Len(p) <= Len(q) /\ SubSeq(q, 1, Len(p)) = p

RECURSIVE WalkFollowed(_, _, _), WalkChildren(_, _, _, _)
WalkFollowed(n, pos, followed) ==
    (IF n.t = "container"
     THEN WalkChildren(n.children, 1, pos, followed) ELSE <<>>)
    \o <<[node_handle |-> n.handle, position |-> pos,
          length |-> text_len_followed(n, followed),
          is_leaf |-> n.t # "container",
          kind |-> IF n.t = "container" THEN n.kind ELSE n.t]>>
WalkChildren(cs, i, pos, followed) ==
    IF i > Len(cs) THEN <<>>
    ELSE WalkFollowed(cs[i], pos, followed \/ i < Len(cs))
         \o WalkChildren(cs, i + 1,
                pos + text_len_followed(cs[i], followed \/ i < Len(cs))
                    + (IF /\ cs[i].kind = "paragraph"
                          /\ (followed \/ i < Len(cs))
                       THEN 1 ELSE 0),
                followed)

Walk(n, pos) == WalkFollowed(n, pos, FALSE)

WithOffsets(w, s, e) ==
    [node_handle |-> w.node_handle, position |-> w.position,
     start_offset |-> Min(w.length, Max(0, s - w.position)),
     end_offset |-> Min(w.length, Max(0, e - w.position)),
     length |-> w.length, is_leaf |-> w.is_leaf, kind |-> w.kind]

RECURSIVE SeqSelect(_, _)
SeqSelect(s, keep) ==
    IF s = <<>> THEN <<>>
    ELSE IF Head(s).node_handle.path \in keep
         THEN <<Head(s)>> \o SeqSelect(Tail(s), keep)
         ELSE SeqSelect(Tail(s), keep)

\* The leaf a collapsed cursor at c resolves to, as an index into all, or 0.
\* Between two leaves the cursor goes to the text on its right; it stays
\* with the leaf on its left when no text starts there.
CursorLeaf(all, c) ==
    LET cands == {i \in 1..Len(all) :
                    /\ all[i].is_leaf
                    /\ all[i].position <= c
                    /\ c <= all[i].position + all[i].length}
        texts == {i \in cands : all[i].kind = "text"}
    IN  IF texts # {} THEN CHOOSE i \in texts : \A j \in texts : j <= i
        ELSE IF cands # {} THEN CHOOSE i \in cands : \A j \in cands : i <= j
        ELSE 0

\* The selection is first cut down to the extent of the text, so that a
\* range that begins at the end of the text resolves like a cursor there;
\* Range::NoNode is left for a Dom without any node.  A reversed range
\* (e < s) finds the same nodes and carries reversed offsets.
find_range(d, s, e) ==
    With(Walk(d, 0), LAMBDA all :
    With(Min(Min(s, e), Dom_text_len(d)), LAMBDA cs :
    With(Min(Max(s, e), Dom_text_len(d)), LAMBDA ce :
    With(CursorLeaf(all, cs), LAMBDA leaf :
    With(SeqSelect(all,
            IF d.children = <<>> THEN {}
            ELSE IF cs = ce
            THEN IF leaf # 0
                 THEN {all[i].node_handle.path : i \in
                         {j \in 1..Len(all) :
                            IsPrefix(all[j].node_handle.path,
                                     all[leaf].node_handle.path)}}
                 ELSE {all[i].node_handle.path : i \in
                         {j \in 1..Len(all) :
                            /\ all[j].position <= cs
                            /\ cs <= all[j].position + all[j].length}}
            ELSE {all[i].node_handle.path : i \in
                    {j \in 1..Len(all) :
                       /\ all[j].position < ce
                       /\ cs < all[j].position + all[j].length}}),
         LAMBDA sel :
           [locations |-> AsSeq([i \in 1..Len(sel) |-> WithOffsets(sel[i], s, e)]),
            start |-> s, end |-> e])))))

leaves(range) == SeqFilterLeaf(range.locations)

\* Range::NoNode / Range::SameNode / Range::MultipleNodes
RangeKind(range) ==
    IF range.locations = <<>> THEN "NoNode"
    ELSE IF Len(leaves(range)) = 1 THEN "SameNode"
    ELSE "MultipleNodes"

----------------------------------------------------------------------------
(* delete_text.rs: delete_nodes and the handle bookkeeping it relies on.    *)
(* An operation that can panic returns a record with a fault flag.         *)

starts_with(subject, object) == IsPrefix(object.path, subject.path)

RECURSIVE AdjustFrom(_, _, _)
AdjustFrom(handles, deleted, i) ==
    IF i > Len(handles) THEN [handles |-> <<>>, fault |-> FALSE]
    ELSE
      LET handle == handles[i]
          parent == parent_handle(deleted)
          rest == AdjustFrom(handles, deleted, i + 1)
          deleted_index == index_in_parent(deleted)
      IN  IF starts_with(handle, deleted)
          THEN rest
          ELSE IF starts_with(handle, parent)
          THEN IF Len(handle.path) <= Len(parent.path)
               THEN [handles |-> <<>>, fault |-> TRUE]   \* index out of range
               ELSE
                 LET child_index == handle.path[Len(parent.path) + 1]
                     adjusted == IF child_index > deleted_index
                                 THEN child_index - 1 ELSE child_index
                     new_handle ==
                        from_raw(Append(parent.path, adjusted)
                                 \o SubSeq(handle.path, Len(deleted.path) + 1,
                                           Len(handle.path)))
                 IN  [handles |-> <<new_handle>> \o rest.handles,
                      fault |-> rest.fault]
          ELSE [handles |-> <<handle>> \o rest.handles, fault |-> rest.fault]

adjust_handles_for_delete(handles, deleted) == AdjustFrom(handles, deleted, 1)

\* one pass of the for loop over to_delete, from its i-th handle on
RECURSIVE DeleteRound(_, _, _, _)
DeleteRound(d, to_delete, i, new_to_delete) ==
    IF i > Len(to_delete)
    THEN [dom |-> d, next |-> new_to_delete, fault |-> FALSE]
    ELSE
      With(to_delete[i], LAMBDA handle :
        IF \/ handle.path = <<>>                      \* "can't be root!"
           \/ ~contains(d, parent_handle(handle))
           \/ lookup_node(d, parent_handle(handle)).t # "container"
           \/ index_in_parent(handle)
                  >= Len(lookup_node(d, parent_handle(handle)).children)
        THEN [dom |-> d, next |-> new_to_delete, fault |-> TRUE]
        ELSE
          With(remove_child(lookup_node(d, parent_handle(handle)),
                            index_in_parent(handle)), LAMBDA parent :
          With(adjust_handles_for_delete(new_to_delete, handle), LAMBDA adj :
            IF adj.fault
            THEN [dom |-> d, next |-> new_to_delete, fault |-> TRUE]
            ELSE DeleteRound(store_node(d, parent_handle(handle), parent),
                             to_delete, i + 1,
                             IF parent.children = <<>>
                             THEN Append(adj.handles, parent.handle)
                             ELSE adj.handles))))

RECURSIVE DeleteLoop(_, _)
DeleteLoop(d, to_delete) ==
    IF to_delete = <<>> THEN [dom |-> d, fault |-> FALSE]
    ELSE With(DeleteRound(d, to_delete, 1, <<>>), LAMBDA r :
           IF r.fault THEN [dom |-> r.dom, fault |-> TRUE]
           ELSE DeleteLoop(r.dom, r.next))

delete_nodes(d, to_delete) == DeleteLoop(d, SeqReverse(to_delete))

----------------------------------------------------------------------------
(* replace_text.rs *)

slice_to(data, to) == SubSeq(data, 1, to)
slice_from(data, from) == SubSeq(data, from + 1, Len(data))
slice(data, from, to) == SubSeq(data, from + 1, to)

\* The body of the for loop of replace_in_text_nodes, from location i on.
\* acc = [dom, to_add, to_delete, first_text_node, fault]
RECURSIVE ReplaceLoop(_, _, _, _)
ReplaceLoop(acc, range, txt, i) ==
    IF i > Len(range.locations) \/ acc.fault THEN acc
    ELSE
      LET loc == range.locations[i]
          n == lookup_node(acc.dom, loc.node_handle)
      IN  IF n.t = "container"
          THEN ReplaceLoop(acc, range, txt, i + 1)
          ELSE IF n.t = "br"
          THEN
            LET whole == loc.start_offset = 0 /\ loc.end_offset = 1
                after == loc.start_offset = 1 /\ loc.end_offset = 1
                adds == /\ range.start >= loc.position
                        /\ range.end = loc.position + 1
            IN  IF ~whole /\ ~after
                THEN [acc EXCEPT !.fault = TRUE]
                ELSE ReplaceLoop(
                       [acc EXCEPT
                          !.to_delete = IF whole THEN Append(@, loc.node_handle)
                                        ELSE @,
                          !.to_add = IF adds
                                     THEN Append(@,
                                        [parent |-> parent_handle(loc.node_handle),
                                         idx |-> index_in_parent(loc.node_handle) + 1,
                                         node |-> new_text(txt)])
                                     ELSE @],
                       range, txt, i + 1)
          ELSE
            IF /\ loc.start_offset = 0
               /\ loc.end_offset = Len(n.data)
               /\ ~acc.first_text_node
            THEN ReplaceLoop(
                   [acc EXCEPT !.to_delete = Append(@, loc.node_handle),
                               !.first_text_node = FALSE],
                   range, txt, i + 1)
            ELSE
              LET new_data ==
                    slice_to(n.data, loc.start_offset)
                    \o (IF acc.first_text_node THEN txt ELSE <<>>)
                    \o slice_from(n.data, loc.end_offset)
              IN  ReplaceLoop(
                    [acc EXCEPT
                       !.dom = store_node(@, loc.node_handle,
                                          [n EXCEPT !.data = new_data]),
                       !.first_text_node = FALSE],
                    range, txt, i + 1)

replace_in_text_nodes(d, range, txt) ==
    ReplaceLoop([dom |-> d, to_add |-> <<>>, to_delete |-> <<>>,
                 first_text_node |-> TRUE, fault |-> FALSE],
                range, txt, 1)

\* "for (parent_handle, idx, node) in to_add.into_iter().rev()"
RECURSIVE AddNodes(_, _, _)
AddNodes(d, to_add, i) ==
    IF i = 0 THEN [dom |-> d, fault |-> FALSE]
    ELSE
      With(to_add[i], LAMBDA a :
      With(lookup_node(d, a.parent), LAMBDA parent :
        IF parent.t # "container" \/ a.idx > Len(parent.children)
        THEN [dom |-> d, fault |-> TRUE]
        ELSE AddNodes(store_node(d, a.parent,
                                 insert_child(parent, a.idx, a.node)),
                      to_add, i - 1)))

\* Dom::join_nodes: after a replacement that spanned several leaves, the
\* node that holds the first text of the range and the node that holds the
\* code unit just after the cursor are merged when they are neighbours of
\* the same sort: two texts become one, two formatting containers of one
\* kind become one, and the merge goes on down along the seam.
RECURSIVE AppendAll(_, _)
AppendAll(c, nodes) ==
    IF nodes = <<>> THEN c
    ELSE AppendAll(append_child(c, Head(nodes)), Tail(nodes))

RECURSIVE JoinAt(_, _, _)
JoinAt(d, pa, pb) ==
    LET a == LookupPath(d, pa)
        b == LookupPath(d, pb)
        pp == SubSeq(pa, 1, Len(pa) - 1)
        parent == LookupPath(d, pp)
        ia == pa[Len(pa)]
        ib == pb[Len(pb)]
    IN  IF ib # ia + 1 THEN d
        ELSE IF a.t = "text" /\ b.t = "text"
        THEN StoreAt(d, pp,
                remove_child(
                    [parent EXCEPT !.children[ia + 1].data = a.data \o b.data],
                    ib))
        ELSE IF is_formatting_node(a) /\ is_formatting_node(b) /\ a.kind = b.kind
        THEN
          LET n == Len(a.children)
              merged == AppendAll(a, b.children)
              d2 == StoreAt(d, pp,
                       remove_child([parent EXCEPT !.children[ia + 1] = merged],
                                    ib))
          IN  IF n > 0 /\ Len(b.children) > 0
              THEN JoinAt(d2, Append(pa, n - 1), Append(pa, n))
              ELSE d2
        ELSE d

CommonPrefixLen(p, q) ==
    LET ks == {k \in 0..Min(Len(p), Len(q)) : SubSeq(p, 1, k) = SubSeq(q, 1, k)}
    IN  CHOOSE k \in ks : \A j \in ks : j <= k

join_nodes(d, range, new_pos) ==
    With(Walk(d, 0), LAMBDA all :
    With({i \in 1..Len(range.locations) : range.locations[i].kind = "text"},
         LAMBDA texts :
    With({i \in 1..Len(all) :
            /\ all[i].is_leaf
            /\ all[i].position < new_pos
            /\ new_pos <= all[i].position + all[i].length}, LAMBDA nexts :
      IF texts = {} \/ nexts = {} THEN d
      ELSE
        With(range.locations[CHOOSE i \in texts : \A j \in texts : i <= j]
                 .node_handle.path, LAMBDA pa :
        With(all[CHOOSE i \in nexts : TRUE].node_handle.path, LAMBDA pb :
        With(CommonPrefixLen(pa, pb), LAMBDA k :
          IF pa = pb \/ ~ContainsPath(d, pa) \/ k >= Len(pa) \/ k >= Len(pb)
          THEN d
          ELSE JoinAt(d, SubSeq(pa, 1, k + 1), SubSeq(pb, 1, k + 1))))))))

replace_multiple_nodes(d, range, txt) ==
    With(replace_in_text_nodes(d, range, txt), LAMBDA r :
      IF r.fault THEN [dom |-> d, fault |-> TRUE]
      ELSE
        With(AddNodes(r.dom, r.to_add, Len(r.to_add)), LAMBDA a :
          IF a.fault THEN [dom |-> d, fault |-> TRUE]
          ELSE
            With(delete_nodes(a.dom, r.to_delete), LAMBDA dl :
              IF dl.fault THEN [dom |-> d, fault |-> TRUE]
              ELSE IF Len(leaves(range)) > 1
              THEN [dom |-> join_nodes(dl.dom, range,
                                       range.start + Len(txt) + 1),
                    fault |-> FALSE]
              ELSE [dom |-> dl.dom, fault |-> FALSE])))

\* do_replace_text_in without `start = 0` in the Range::NoNode arm
do_replace_text_in_keeps_start(st, txt, s, e) ==
    With(find_range(st.dom, s, e), LAMBDA range :
      IF RangeKind(range) = "NoNode"
      THEN [dom |-> Dom_append_child(st.dom, new_text(txt)),
            start |-> s + Len(txt), end |-> s + Len(txt), fault |-> FALSE]
      ELSE With(replace_multiple_nodes(st.dom, range, txt), LAMBDA r :
             [dom |-> r.dom, start |-> s + Len(txt), end |-> s + Len(txt),
              fault |-> r.fault]))

\* A composer state is [dom, start, end]; an outcome adds the fault flag.
do_replace_text_in(st, txt, s, e) ==
    With(find_range(st.dom, s, e), LAMBDA range :
      IF RangeKind(range) = "NoNode"
      THEN [dom |-> Dom_append_child(st.dom, new_text(txt)),
            start |-> 0 + Len(txt), end |-> 0 + Len(txt), fault |-> FALSE]
      ELSE With(replace_multiple_nodes(st.dom, range, txt), LAMBDA r :
             [dom |-> r.dom, start |-> s + Len(txt), end |-> s + Len(txt),
              fault |-> r.fault]))

safe_selection(st) ==
    [s |-> Min(st.start, st.end), e |-> Max(st.start, st.end)]

do_replace_text(st, txt) ==
    With(safe_selection(st), LAMBDA sel :
      do_replace_text_in(st, txt, sel.s, sel.e))

----------------------------------------------------------------------------
(* Outcome of a command: the new composer state, whether the command        *)
(* panicked, the states it pushed onto the undo stack (in order), and       *)
(* whether it recomputed the action states (it returned an update built by  *)
(* create_update_replace_all rather than ComposerUpdate::keep()).           *)

State(d, s, e) == [dom |-> d, start |-> s, end |-> e]
StateOf(o) == State(o.dom, o.start, o.end)

Outcome(st, flt, pushed, menu) ==
    [dom |-> st.dom, start |-> st.start, end |-> st.end, fault |-> flt,
     pushed |-> pushed, menu |-> menu]

Keep(st) == Outcome(st, FALSE, <<>>, FALSE)

\* Location -= n: a Location never goes below 0
LocationSub(loc, n) == IF loc - n < 0 THEN 0 ELSE loc - n

replace_text_in(st, txt, s, e) ==
    With(do_replace_text_in(st, txt, s, e), LAMBDA r :
      Outcome(StateOf(r), r.fault, <<st>>, TRUE))

replace_text(st, txt) ==
    With(safe_selection(st), LAMBDA sel :
      replace_text_in(st, txt, sel.s, sel.e))

----------------------------------------------------------------------------
(* delete_text.rs *)

delete_in(st, s, e) ==
    With(do_replace_text_in([st EXCEPT !.end = s], <<>>, s, e), LAMBDA r :
      Outcome(StateOf(r), r.fault, <<st>>, TRUE))

do_backspace(st) ==
    do_replace_text(IF st.start = st.end
                    THEN [st EXCEPT !.start = LocationSub(@, 1)]
                    ELSE st,
                    <<>>)

\* without list items in the Dom, backspace_single_cursor always ends in
\* do_backspace
backspace(st) ==
    With(do_backspace(st), LAMBDA r :
      Outcome(StateOf(r), r.fault, <<st>>, TRUE))

\* delete, had it kept the end it moved forward
delete_keeps_end(st) ==
    With(do_replace_text(IF st.start = st.end
                         THEN [st EXCEPT !.end = @ + 1]
                         ELSE st,
                         <<>>), LAMBDA r :
      Outcome([StateOf(r) EXCEPT !.end = IF st.start = st.end
                                         THEN st.end + 1 ELSE @],
              r.fault, <<st>>, TRUE))

delete(st) ==
    With(do_replace_text(IF st.start = st.end
                         THEN [st EXCEPT !.end = @ + 1]
                         ELSE st,
                         <<>>), LAMBDA r :
      Outcome(StateOf(r), r.fault, <<st>>, TRUE))

\* c.is_whitespace() / c.is_ascii_punctuation() over the model's alphabet;
\* an absent character (an Option that is None) is the empty sequence
\* the code point of a character of the model's alphabet
CodePoint(ch) ==
    CASE ch = " " -> 32
      [] ch = Nbsp -> 160
      [] ch = "\n" -> 10
      [] ch = "." -> 46
      [] ch = "," -> 44
      [] ch = Zwsp -> 8203
      [] ch = "Z" -> 90
      [] ch = "a" -> 97
      [] ch = "b" -> 98
      [] ch = "c" -> 99

\* char::is_whitespace: the code points with the White_Space property
is_whitespace(c) ==
    c \in (9..13) \cup {32, 133, 160, 5760} \cup (8192..8202)
          \cup {8232, 8233, 8239, 8287, 12288}

\* char::is_ascii_punctuation: the four ranges of the standard library
is_ascii_punctuation(c) ==
    \/ 33 <= c /\ c <= 47
    \/ 58 <= c /\ c <= 64
    \/ 91 <= c /\ c <= 96
    \/ 123 <= c /\ c <= 126

\* CharExt::is_zwsp
is_zwsp(c) == c = 8203

Pound == 163

\* get_char_type of delete_text.rs for Some(c)
char_type(c) ==
    IF is_whitespace(c) THEN "Whitespace"
    ELSE IF is_ascii_punctuation(c) \/ c = Pound THEN "Punctuation"
    ELSE "Other"

\* get_char_type of text_node.rs
TextNode_get_char_type(c) ==
    IF is_whitespace(c) THEN "Whitespace"
    ELSE IF is_zwsp(c) THEN "ZWSP"
    ELSE IF is_ascii_punctuation(c) THEN "Punctuation"
    ELSE "Other"

get_char_type(char) ==
    IF char = <<>> THEN "None" ELSE char_type(CodePoint(char[1]))

\* content.chars().nth(n)
nth(content, n) ==
    IF 0 <= n /\ n < Len(content) THEN <<content[n + 1]>> ELSE <<>>

first_leaf(range) ==
    With(leaves(range), LAMBDA ls :
      IF ls = <<>> THEN <<>> ELSE <<ls[1]>>)

\* `leaf.start_offset - 1` on a usize: with overflow checks the subtraction
\* panics at 0, without them it wraps to a huge index where nth() is None.
get_char_type_at(st, direction, overflow_checks) ==
    With(safe_selection(st), LAMBDA sel :
    With(first_leaf(find_range(st.dom, sel.s, sel.e)), LAMBDA fl :
      IF fl = <<>> THEN [type |-> "None", fault |-> FALSE]
      ELSE IF fl[1].kind = "br"
      THEN [type |-> "Newline", fault |-> FALSE]
      ELSE IF direction = "Backwards" /\ fl[1].start_offset = 0
      THEN [type |-> "None", fault |-> overflow_checks]
      ELSE [type |-> get_char_type(nth(lookup_node(st.dom,
                         fl[1].node_handle).data,
                         IF direction = "Forwards" THEN fl[1].start_offset
                         ELSE fl[1].start_offset - 1)),
            fault |-> FALSE]))

\* the while loop of get_end_index_of_run; get_char_type never yields
\* Newline, so stopped_at_newline stays false
RECURSIVE RunLoop(_, _, _, _, _, _, _)
RunLoop(content, length, start_type, current_index, current_type, offset, direction) ==
    IF /\ current_type = start_type
       /\ IF direction = "Forwards" THEN current_index < length
          ELSE current_index > 0
    THEN With(IF direction = "Forwards" THEN current_index + 1
              ELSE current_index - 1, LAMBDA i :
         With(get_char_type(nth(content, i)), LAMBDA ty :
           RunLoop(content, length, start_type, i, ty,
                   IF ty = start_type /\ i = 0 THEN offset + 2
                   ELSE offset + 1,
                   direction)))
    ELSE offset

\* The start argument is not used by the code.  Going backwards from
\* start_offset 0 the index underflows: a panic with overflow checks, and
\* without them a loop of about 2^64 rounds, which never returns either.
get_end_index_of_run(st, direction) ==
    With(safe_selection(st), LAMBDA sel :
    With(find_range(st.dom, sel.s, sel.e), LAMBDA range :
    With(first_leaf(range), LAMBDA fl :
      IF fl = <<>> \/ fl[1].kind # "text"
      THEN [index |-> 1, stopped_at_newline |-> FALSE, fault |-> FALSE]
      ELSE IF direction = "Backwards" /\ fl[1].start_offset = 0
      THEN [index |-> 1, stopped_at_newline |-> FALSE, fault |-> TRUE]
      ELSE
        With(lookup_node(st.dom, fl[1].node_handle).data, LAMBDA content :
        With(IF direction = "Forwards" THEN fl[1].start_offset
             ELSE fl[1].start_offset - 1, LAMBDA start_index :
        With(get_char_type(nth(content, start_index)), LAMBDA start_type :
        With(RunLoop(content, fl[1].length, start_type, start_index,
                     start_type, 0, direction), LAMBDA offset :
          [index |-> IF direction = "Forwards" THEN range.start + offset
                     ELSE range.start - offset,
           stopped_at_newline |-> FALSE,
           fault |-> direction = "Backwards"
                        /\ range.start - offset < 0])))))))

\* two commands run one after the other inside one handler
Then(o1, o2) ==
    IF o1.fault THEN o1
    ELSE [o2 EXCEPT !.pushed = o1.pushed \o o2.pushed,
                    !.menu = o1.menu \/ o2.menu]

Fault(st) == Outcome(st, TRUE, <<>>, FALSE)

backspace_word(st, overflow_checks) ==
    With(safe_selection(st), LAMBDA sel :
    With(find_range(st.dom, sel.s, sel.e).start, LAMBDA c :
    With(get_char_type_at(st, "Backwards", overflow_checks),
         LAMBDA start_type :
    With(get_end_index_of_run(st, "Backwards"), LAMBDA run :
      IF sel.s # sel.e THEN delete_in(st, sel.s, sel.e)
      ELSE IF c = 0 THEN Keep(st)
      ELSE IF start_type.fault THEN Fault(st)
      ELSE IF start_type.type = "None" THEN Keep(st)
      ELSE IF start_type.type = "Newline" THEN delete_in(st, c - 1, c)
      ELSE IF run.fault THEN Fault(st)
      ELSE
        With(delete_in(st, run.index, c), LAMBDA o1 :
          IF start_type.type \in {"Punctuation", "Other"} \/ o1.fault
          THEN o1
          ELSE
            With(StateOf(o1), LAMBDA st1 :
            With(safe_selection(st1).s, LAMBDA c1 :
            With(get_end_index_of_run(st1, "Backwards"), LAMBDA run1 :
              IF (c1 = 0 /\ overflow_checks) \/ run1.fault
              THEN Fault(st)
              ELSE Then(o1, delete_in(st1, run1.index, c1))))))))))

delete_word(st) ==
    With(safe_selection(st), LAMBDA sel :
    With(find_range(st.dom, sel.s, sel.e).start, LAMBDA c :
    With(get_char_type_at(st, "Forwards", FALSE), LAMBDA start_type :
    With(get_end_index_of_run(st, "Forwards"), LAMBDA run :
      IF sel.s # sel.e THEN delete_in(st, sel.s, sel.e)
      ELSE IF sel.e = Dom_text_len(st.dom) THEN Keep(st)
      ELSE IF start_type.type = "None" THEN Keep(st)
      ELSE IF start_type.type = "Newline" THEN delete_in(st, c, c + 1)
      ELSE
        With(delete_in(st, c, run.index), LAMBDA o1 :
          IF start_type.type \in {"Punctuation", "Other"} \/ o1.fault
          THEN o1
          ELSE
            With(StateOf(o1), LAMBDA st1 :
            With(safe_selection(st1).s, LAMBDA c1 :
            With(get_end_index_of_run(st1, "Forwards"), LAMBDA run1 :
              Then(o1, delete_in(st1, c1, run1.index))))))))))

----------------------------------------------------------------------------
(* format.rs *)

is_format_node(n, format) ==
    n.t = "container" /\ n.kind = format

\* TRUE when the node at the handle or one of its ancestors has the format
RECURSIVE path_contains_format_node(_, _, _)
path_contains_format_node(d, h, format) ==
    IF is_format_node(lookup_node(d, h), format) THEN TRUE
    ELSE IF has_parent(h)
    THEN path_contains_format_node(d, parent_handle(h), format)
    ELSE FALSE

needs_format(d, loc, format) ==
    loc.is_leaf /\ ~path_contains_format_node(d, loc.node_handle, format)

is_covered(loc) == loc.start_offset = 0 /\ loc.end_offset = loc.length
is_start(loc) == loc.end_offset = loc.length

\* format_same_node wrapping the whole text node instead of the selection
format_same_node_whole(d, loc, format) ==
    LET n == lookup_node(d, loc.node_handle)
    IN  IF n.t # "text" THEN [dom |-> d, fault |-> TRUE]
        ELSE [dom |-> Dom_replace(d, loc.node_handle,
                          <<new_text(<<>>),
                            new_formatting(format, <<new_text(n.data)>>),
                            new_text(<<>>)>>),
              fault |-> FALSE]

\* panics on a node that is not a text node
format_same_node(d, loc, format) ==
    LET n == lookup_node(d, loc.node_handle)
    IN  IF n.t # "text" THEN [dom |-> d, fault |-> TRUE]
        ELSE
          LET before == slice_to(n.data, loc.start_offset)
              during == slice(n.data, loc.start_offset, loc.end_offset)
              after == slice_from(n.data, loc.end_offset)
          IN  [dom |-> Dom_replace(d, loc.node_handle,
                          <<new_text(before),
                            new_formatting(format, <<new_text(during)>>),
                            new_text(after)>>),
               fault |-> FALSE]

check_format_selection_type(d, locations, format) ==
    IF \A i \in 1..Len(locations) :
           ~is_format_node(lookup_node(d, locations[i].node_handle), format)
    THEN "Extend"
    ELSE IF \E i \in 1..Len(locations) : needs_format(d, locations[i], format)
    THEN "Extend"
    ELSE "Remove"

\* the indexes come from the handles stored in the children, last child
\* first
RECURSIVE RemoveIndexes(_, _)
RemoveIndexes(c, indexes) ==
    IF indexes = <<>> THEN [node |-> c, fault |-> FALSE]
    ELSE IF Head(indexes) >= Len(c.children)
    THEN [node |-> c, fault |-> TRUE]
    ELSE RemoveIndexes(remove_child(c, Head(indexes)), Tail(indexes))

RECURSIVE EmptyTextIndexes(_, _)
EmptyTextIndexes(children, i) ==
    IF i = 0 THEN <<>>
    ELSE (IF children[i].t = "text" /\ children[i].data = <<>>
          THEN <<index_in_parent(children[i].handle)>> ELSE <<>>)
         \o EmptyTextIndexes(children, i - 1)

remove_empty_text_nodes(d, h) ==
    LET parent == lookup_node(d, h)
        r == RemoveIndexes(parent,
                 EmptyTextIndexes(parent.children, Len(parent.children)))
    IN  IF parent.t # "container" THEN [dom |-> d, fault |-> FALSE]
        ELSE [dom |-> store_node(d, h, r.node), fault |-> r.fault]

\* When the node at the handle and its previous sibling are formatting
\* containers of one kind, the children of the node move to the end of the
\* previous sibling and the node is removed.
join_format_node_with_prev(d, h) ==
    IF ~has_parent(h) \/ ~contains(d, h) \/ index_in_parent(h) = 0 THEN d
    ELSE
      LET parent == lookup_node(d, parent_handle(h))
          i == index_in_parent(h)
          cur == parent.children[i + 1]
          prev == parent.children[i]
      IN  IF /\ cur.t = "container" /\ cur.kind \in FormatKinds
             /\ prev.t = "container" /\ prev.kind = cur.kind
          THEN store_node(d, parent_handle(h),
                   remove_child(
                       [parent EXCEPT !.children[i] =
                            AppendAll(prev, cur.children)], i))
          ELSE d

\* `len - index` is a usize subtraction
merge_formatting_node_with_siblings(d, h) ==
    With(lookup_node(d, parent_handle(h)), LAMBDA parent :
    With(Len(parent.children), LAMBDA len :
      IF parent.t = "container" /\ len < index_in_parent(h)
      THEN [dom |-> d, fault |-> TRUE]
      ELSE [dom |-> join_format_node_with_prev(
                        IF parent.t = "container"
                           /\ len - index_in_parent(h) > 1
                        THEN join_format_node_with_prev(d, next_sibling(h))
                        ELSE d,
                        h),
            fault |-> FALSE]))

\* the body of the for loop, for one location
ExtendOne(d, loc, format) ==
    With(parent_handle(loc.node_handle), LAMBDA ph :
    With(lookup_node(d, ph), LAMBDA parent :
    With(index_in_parent(loc.node_handle), LAMBDA index :
    With(parent.children[index + 1], LAMBDA n :
    With(remove_child(parent, index), LAMBDA removed :
    With(IF is_start(loc) THEN loc.start_offset ELSE loc.end_offset,
         LAMBDA position :
    With([new_text(slice_to(n.data, position)) EXCEPT !.handle = n.handle],
         LAMBDA orig :
    With(new_text(slice_from(n.data, position)), LAMBDA new_node :
      IF ~is_covered(loc) /\ n.t # "text" THEN [dom |-> d, fault |-> TRUE]
      ELSE
        With(remove_empty_text_nodes(
               store_node(d, ph,
                 IF is_covered(loc)
                 THEN insert_child(removed, index,
                                   new_formatting(format, <<n>>))
                 ELSE IF is_start(loc)
                 THEN insert_child(
                          insert_child(removed, index,
                                       new_formatting(format, <<new_node>>)),
                          index, orig)
                 ELSE insert_child(
                          insert_child(removed, index, new_node),
                          index, new_formatting(format, <<orig>>))),
               ph), LAMBDA d2 :
          IF d2.fault THEN [dom |-> d, fault |-> TRUE]
          ELSE merge_formatting_node_with_siblings(d2.dom,
                                                   loc.node_handle))))))))))

\* locations i, i - 1, ..., 1: the loop runs over the locations in reverse
RECURSIVE ExtendLoop(_, _, _, _)
ExtendLoop(d, locations, i, format) ==
    IF i = 0 THEN [dom |-> d, fault |-> FALSE]
    ELSE IF ~contains(d, locations[i].node_handle)
    THEN [dom |-> d, fault |-> TRUE]
    ELSE IF ~needs_format(d, locations[i], format)
    THEN ExtendLoop(d, locations, i - 1, format)
    ELSE With(ExtendOne(d, locations[i], format), LAMBDA r :
           IF r.fault THEN r
           ELSE ExtendLoop(r.dom, locations, i - 1, format))

extend_format_in_multiple_nodes(d, locations, format) ==
    ExtendLoop(d, locations, Len(locations), format)

format_several_nodes(d, range, format) ==
    IF check_format_selection_type(d, range.locations, format) = "Remove"
    THEN [dom |-> d, fault |-> FALSE]
    ELSE extend_format_in_multiple_nodes(d, range.locations, format)

format(st, fmt) ==
    With(safe_selection(st), LAMBDA sel :
    With(find_range(st.dom, sel.s, sel.e), LAMBDA range :
    With(RangeKind(range), LAMBDA kind :
      IF kind = "NoNode"
      THEN Outcome([st EXCEPT !.dom = Dom_append_child(st.dom,
                        new_formatting(fmt, <<new_text(<<>>)>>))],
                   FALSE, <<st>>, FALSE)
      ELSE With(IF kind = "SameNode"
                THEN format_same_node(st.dom, leaves(range)[1], fmt)
                ELSE format_several_nodes(st.dom, range, fmt), LAMBDA r :
             Outcome([st EXCEPT !.dom = r.dom], r.fault, <<st>>, TRUE)))))

----------------------------------------------------------------------------
(* Splitting a sub-tree (Dom::split_sub_tree_from / split_sub_tree_between). *)
(* The children are cut at the leaf found by path, at offset inside it: the *)
(* containers on the way are copied to both sides, and a side that is left  *)
(* without content is dropped.                                              *)

RECURSIVE SplitChildren(_, _, _)
SplitChildren(children, path, offset) ==
    LET i == path[1] + 1
        n == children[i]
        before == SubSeq(children, 1, i - 1)
        after == SubSeq(children, i + 1, Len(children))
        sub == SplitChildren(n.children, Tail(path), offset)
        cut ==
            IF n.t = "text"
            THEN [left |-> IF offset = 0 THEN <<>>
                           ELSE <<new_text(slice_to(n.data, offset))>>,
                  right |-> IF offset >= Len(n.data) THEN <<>>
                            ELSE <<new_text(slice_from(n.data, offset))>>]
            ELSE IF n.t = "br"
            THEN [left |-> IF offset = 0 THEN <<>> ELSE <<n>>,
                  right |-> IF offset = 0 THEN <<n>> ELSE <<>>]
            ELSE IF Len(path) = 1
            THEN [left |-> <<>>, right |-> <<n>>]
            ELSE [left |-> IF sub.left = <<>> THEN <<>>
                           ELSE <<[n EXCEPT !.children = sub.left]>>,
                  right |-> IF sub.right = <<>> THEN <<>>
                            ELSE <<[n EXCEPT !.children = sub.right]>>]
    IN  [left |-> before \o cut.left, right |-> cut.right \o after]

\* the children cut down to the leaves whose handles are in keep, with the
\* containers that still hold one of them
RECURSIVE Restrict(_, _)
Restrict(children, keep) ==
    IF children = <<>> THEN <<>>
    ELSE LET n == Head(children)
             sub == Restrict(n.children, keep)
         IN  (IF n.t = "container"
              THEN IF sub = <<>> THEN <<>>
                   ELSE <<[n EXCEPT !.children = sub]>>
              ELSE IF n.handle \in keep THEN <<n>> ELSE <<>>)
             \o Restrict(Tail(children), keep)

\* handles of a whole tree, from the root down
Rehandle(d) == set_handle(d, from_raw(<<>>))

advance_selection(st) == [st EXCEPT !.start = @ + 1, !.end = @ + 1]

----------------------------------------------------------------------------
(* quotes.rs *)

is_block_kind(kind) ==
    kind \in {"generic", "paragraph", "quote", "list", "list_item"}

\* index, among the leaves of the Dom, of the leaf with the given handle
LeafIndex(all_leaves, h) ==
    CHOOSE i \in 1..Len(all_leaves) : all_leaves[i].node_handle = h

RECURSIVE LineStart(_, _)
LineStart(all_leaves, i) ==
    IF i > 1 /\ all_leaves[i - 1].kind # "br"
    THEN LineStart(all_leaves, i - 1) ELSE i

RECURSIVE LineEnd(_, _)
LineEnd(all_leaves, i) ==
    IF i < Len(all_leaves) /\ all_leaves[i + 1].kind # "br"
    THEN LineEnd(all_leaves, i + 1) ELSE i

\* The nodes a block is wrapped around: from the first leaf of the line
\* the selection starts in to the last leaf of the line it ends in, as
\* indexes into the leaves of the Dom.
find_nodes_to_wrap_in_block(d, s, e) ==
    With(leaves(find_range(d, s, e)), LAMBDA ls :
    With(SeqFilterLeaf(Walk(d, 0)), LAMBDA all_leaves :
      IF ls = <<>> THEN <<>>
      ELSE <<[first |-> LineStart(all_leaves,
                            LeafIndex(all_leaves, ls[1].node_handle)),
              last |-> LineEnd(all_leaves,
                            LeafIndex(all_leaves,
                                      ls[Len(ls)].node_handle))]>>))

\* the leading Zwsp joins the text that follows it
WithLeadingZwsp(children) ==
    IF children # <<>> /\ children[1].t = "text"
    THEN IF children[1].data # <<>> /\ children[1].data[1] = Zwsp
         THEN children
         ELSE <<new_text(<<Zwsp>> \o children[1].data)>> \o Tail(children)
    ELSE <<new_text(<<Zwsp>>)>> \o children

add_quote(st) ==
    With(safe_selection(st), LAMBDA sel :
    With(find_nodes_to_wrap_in_block(st.dom, sel.s, sel.e),
         LAMBDA wrap_result :
      IF wrap_result = <<>>
      THEN Outcome(advance_selection(
               [st EXCEPT !.dom = Dom_append_child(st.dom,
                                      new_quote(<<new_text(<<Zwsp>>)>>))]),
               FALSE, <<>>, TRUE)
      ELSE
        With(wrap_result[1], LAMBDA w :
        With(SeqFilterLeaf(Walk(st.dom, 0)), LAMBDA all_leaves :
        With(Restrict(st.dom.children,
                      {all_leaves[i].node_handle : i \in 1..(w.first - 1)}),
             LAMBDA before :
        With(Restrict(st.dom.children,
                      {all_leaves[i].node_handle : i \in w.first..w.last}),
             LAMBDA inside :
        With(Restrict(st.dom.children,
                      {all_leaves[i].node_handle :
                          i \in (w.last + 1)..Len(all_leaves)}),
             LAMBDA after :
        With(Rehandle([st.dom EXCEPT !.children =
                 before \o <<new_quote(WithLeadingZwsp(inside))>> \o after]),
             LAMBDA d1 :
          Outcome(IF /\ inside # <<>>
                     /\ inside[1].t = "text"
                     /\ inside[1].data # <<>>
                     /\ inside[1].data[1] = Zwsp
                  THEN [st EXCEPT !.dom = d1]
                  ELSE advance_selection([st EXCEPT !.dom = d1]),
                  FALSE, <<>>, TRUE)))))))))

\* ContainerNode::remove_leading_zwsp: the Zwsp at the start of the first
\* child goes, and so does that child when nothing else was in it
remove_leading_zwsp(c) ==
    IF /\ c.children # <<>> /\ c.children[1].t = "text"
       /\ c.children[1].data # <<>> /\ c.children[1].data[1] = Zwsp
    THEN [node |-> IF Len(c.children[1].data) = 1 THEN remove_child(c, 0)
                   ELSE [c EXCEPT !.children[1].data = Tail(@)],
          removed |-> TRUE]
    ELSE [node |-> c, removed |-> FALSE]

remove_and_keep_children(d, h) ==
    Dom_replace(d, h, lookup_node(d, h).children)

remove_quote(st) ==
    With(safe_selection(st), LAMBDA sel :
    With(find_range(st.dom, sel.s, sel.e), LAMBDA range :
    With({i \in 1..Len(range.locations) : range.locations[i].kind = "quote"},
         LAMBDA quotes :
      IF quotes = {} THEN Keep(st)
      ELSE
        With(range.locations[CHOOSE i \in quotes : \A j \in quotes : i <= j],
             LAMBDA quote_location :
        With(remove_leading_zwsp(
                 lookup_node(st.dom, quote_location.node_handle)), LAMBDA r :
        With(IF r.removed /\ quote_location.position <= sel.s
             THEN [st EXCEPT !.start = LocationSub(@, 1),
                             !.end = LocationSub(@, 1)]
             ELSE st, LAMBDA st1 :
          Outcome([st1 EXCEPT !.dom = remove_and_keep_children(
                      store_node(st.dom, quote_location.node_handle, r.node),
                      quote_location.node_handle)],
                  FALSE, <<>>, TRUE)))))))

\* quote() never calls push_state_to_history
quote(st, is_reversed) ==
    IF is_reversed THEN remove_quote(st) ELSE add_quote(st)

----------------------------------------------------------------------------
(* new_lines.rs *)

\* Dom::insert_at: the node goes in at the index its handle names
insert_at(d, h, n) ==
    IF /\ has_parent(h) /\ contains(d, parent_handle(h))
       /\ lookup_node(d, parent_handle(h)).t = "container"
       /\ index_in_parent(h) <= Len(lookup_node(d, parent_handle(h)).children)
    THEN [dom |-> store_node(d, parent_handle(h),
                      insert_child(lookup_node(d, parent_handle(h)),
                                   index_in_parent(h), n)),
          fault |-> FALSE]
    ELSE [dom |-> d, fault |-> TRUE]

\* Range::deepest_block_node(None): the block location with the longest
\* handle, the first of them in document order
deepest_block_node(range) ==
    LET blocks == {i \in 1..Len(range.locations) :
                      is_block_kind(range.locations[i].kind)}
        deepest == {i \in blocks : \A j \in blocks :
                      Len(range.locations[j].node_handle.path)
                        <= Len(range.locations[i].node_handle.path)}
    IN  range.locations[CHOOSE i \in deepest : \A j \in deepest : i <= j]

do_new_line_in_paragraph(st, leaf, paragraph_location) ==
    With(paragraph_location.node_handle, LAMBDA bh :
    With(lookup_node(st.dom, bh), LAMBDA block :
      IF leaf = <<>>
      THEN With(insert_at(st.dom, bh, new_paragraph(<<>>)), LAMBDA r :
             Outcome(advance_selection([st EXCEPT !.dom = r.dom]),
                     r.fault, <<>>, FALSE))
      ELSE IF \/ ~contains(st.dom, leaf[1].node_handle)
              \/ block.children = <<>>
              \/ leaf[1].start_offset
                    > text_len(lookup_node(st.dom, leaf[1].node_handle))
      THEN Fault(st)
      ELSE
        With(SplitChildren(block.children,
                 SubSeq(leaf[1].node_handle.path, Len(bh.path) + 1,
                        Len(leaf[1].node_handle.path)),
                 leaf[1].start_offset), LAMBDA sp :
        With(<<new_paragraph(sp.left), new_paragraph(sp.right)>>,
             LAMBDA halves :
          Outcome(advance_selection([st EXCEPT !.dom = Rehandle(
                      IF block.kind = "paragraph"
                      THEN Dom_replace(st.dom, bh, halves)
                      ELSE store_node(st.dom, bh,
                               [block EXCEPT !.children = halves]))]),
                  FALSE, <<>>, FALSE)))))

\* a variant that always inserts at the handle of the block, as for a block
\* whose start_offset is 0: the new paragraph lands before both halves
do_new_line_in_block_node_at_block(st, leaf, paragraph_location, ancestor) ==
    IF leaf # <<>>
    THEN do_new_line_in_paragraph(st, leaf, paragraph_location)
    ELSE
      With(paragraph_location.node_handle, LAMBDA ph :
      With(index_in_parent(ph), LAMBDA i :
      With(lookup_node(st.dom, ancestor.node_handle), LAMBDA a :
      With(SubSeq(a.children, 1, i), LAMBDA before :
      With(SubSeq(a.children, i + 2, Len(a.children)), LAMBDA after :
        IF parent_handle(ph) # ancestor.node_handle THEN Fault(st)
        ELSE Outcome([st EXCEPT !.dom =
                 Rehandle(Dom_replace(st.dom, ancestor.node_handle,
                     <<new_paragraph(<<>>)>>
                     \o (IF after = <<>> THEN <<>>
                         ELSE <<[a EXCEPT !.children = after]>>)
                     \o (IF before = <<>> THEN <<>>
                         ELSE <<[a EXCEPT !.children = before]>>)))],
                     FALSE, <<>>, FALSE))))))

\* an empty paragraph inside a block that is not the root: the block is cut
\* in two around a new empty paragraph
do_new_line_in_block_node(st, leaf, paragraph_location, ancestor) ==
    IF leaf # <<>>
    THEN do_new_line_in_paragraph(st, leaf, paragraph_location)
    ELSE
      With(paragraph_location.node_handle, LAMBDA ph :
      With(index_in_parent(ph), LAMBDA i :
      With(lookup_node(st.dom, ancestor.node_handle), LAMBDA a :
      With(SubSeq(a.children, 1, i), LAMBDA before :
      With(SubSeq(a.children, i + 2, Len(a.children)), LAMBDA after :
        IF parent_handle(ph) # ancestor.node_handle THEN Fault(st)
        ELSE Outcome([st EXCEPT !.dom =
                 Rehandle(Dom_replace(st.dom, ancestor.node_handle,
                     (IF before = <<>> THEN <<>>
                      ELSE <<[a EXCEPT !.children = before]>>)
                     \o <<new_paragraph(<<>>)>>
                     \o (IF after = <<>> THEN <<>>
                         ELSE <<[a EXCEPT !.children = after]>>)))],
                     FALSE, <<>>, FALSE))))))

\* the nearest block above the handle, as a location of the range
BlockAbove(range, h) ==
    LET above == {i \in 1..Len(range.locations) :
                     /\ is_block_kind(range.locations[i].kind)
                     /\ range.locations[i].node_handle.path # h.path
                     /\ IsPrefix(range.locations[i].node_handle.path, h.path)}
    IN  range.locations[CHOOSE i \in above : \A j \in above :
                           Len(range.locations[j].node_handle.path)
                             <= Len(range.locations[i].node_handle.path)]

\* the block the selection was in is gone: an empty paragraph takes its place
InsertEmptyParagraph(st, block_handle) ==
    With(IF ~has_parent(block_handle)
         THEN [dom |-> Dom_append_child(st.dom, new_paragraph(<<>>)),
               fault |-> FALSE]
         ELSE insert_at(st.dom, block_handle, new_paragraph(<<>>)),
         LAMBDA r : Outcome([st EXCEPT !.dom = r.dom], r.fault, <<>>, FALSE))

\* Dom::remove: the node leaves the children of its parent
Dom_remove(d, h) ==
    store_node(d, parent_handle(h),
               remove_child(lookup_node(d, parent_handle(h)),
                            index_in_parent(h)))

\* do_new_line, the ListItem arm.  An empty item leaves the list: a
\* Paragraph goes in after the list, the item is removed, and so is the list
\* once it has no items; nothing here moves the selection.  An item with
\* content is cut in two at the cursor.
do_new_line_in_list_item(st, leaf, block_location) ==
    With(block_location.node_handle, LAMBDA ih :
    With(parent_handle(ih), LAMBDA list_handle :
      IF is_empty_list_item(lookup_node(st.dom, ih))
      THEN With(insert_at(st.dom, next_sibling(list_handle),
                          new_paragraph(<<>>)), LAMBDA r :
           With(IF r.fault THEN st.dom ELSE Dom_remove(r.dom, ih),
                LAMBDA d1 :
             Outcome([st EXCEPT !.dom =
                         IF lookup_node(d1, list_handle).children = <<>>
                         THEN Dom_remove(d1, list_handle) ELSE d1],
                     r.fault, <<>>, FALSE)))
      ELSE IF block_location.start_offset = 0
      THEN With(insert_at(st.dom, ih, new_list_item(<<>>)), LAMBDA r :
             Outcome([st EXCEPT !.dom = r.dom], r.fault, <<>>, FALSE))
      ELSE IF leaf = <<>> THEN Fault(st)
      ELSE
        With(lookup_node(st.dom, ih), LAMBDA item :
        With(SplitChildren(item.children,
                 SubSeq(leaf[1].node_handle.path, Len(ih.path) + 1,
                        Len(leaf[1].node_handle.path)),
                 leaf[1].start_offset), LAMBDA sp :
        With(insert_at(store_node(st.dom, ih,
                           [item EXCEPT !.children = sp.left]),
                       next_sibling(ih), new_list_item(sp.right)),
             LAMBDA r :
          Outcome(advance_selection([st EXCEPT !.dom = Rehandle(r.dom)]),
                  r.fault, <<>>, FALSE))))))

do_new_line(st) ==
    With(safe_selection(st), LAMBDA sel :
    With(find_range(st.dom, sel.s, sel.e), LAMBDA range :
      IF range.locations = <<>>
      THEN Outcome([st EXCEPT !.dom =
                       Dom_append_child(st.dom, new_paragraph(<<>>))],
                   FALSE, <<>>, FALSE)
      ELSE
        With(IF sel.s # sel.e THEN do_replace_text(st, <<>>) ELSE Keep(st),
             LAMBDA replaced :
        With(StateOf(replaced), LAMBDA st1 :
        With(deepest_block_node(range), LAMBDA block_location :
        With(block_location.node_handle, LAMBDA bh :
        With(first_leaf(range), LAMBDA fl :
          IF replaced.fault THEN Fault(st)
          ELSE IF \/ ~contains(st1.dom, bh)
                  \/ lookup_node(st1.dom, bh).t # "container"
                  \/ lookup_node(st1.dom, bh).kind # block_location.kind
          THEN InsertEmptyParagraph(st1, bh)
          ELSE IF block_location.kind = "paragraph"
          THEN With(BlockAbove(range, bh), LAMBDA ancestor_block :
                 IF ancestor_block.kind # "generic"
                 THEN do_new_line_in_block_node(st1, fl, block_location,
                                                ancestor_block)
                 ELSE do_new_line_in_paragraph(st1, fl, block_location))
          ELSE IF block_location.kind = "list_item"
          THEN do_new_line_in_list_item(st1, fl, block_location)
          ELSE IF block_location.kind = "generic"
          THEN do_new_line_in_paragraph(st1, fl, block_location)
          ELSE Fault(st))))))))

\* new_line returns nothing: no update is built, no action state computed
new_line(st) ==
    LET o == do_new_line(st)
    IN  [o EXCEPT !.pushed = <<st>>, !.menu = FALSE]

----------------------------------------------------------------------------
(* replace_text.rs: enter *)

\* do_enter_in_text: a mutating command of its own, it pushes the state it
\* starts from and splits the block at the cursor as new_line does
do_enter_in_text(st) ==
    [do_new_line(st) EXCEPT !.pushed = <<st>>, !.menu = TRUE]

enter_with_zero_length_selection(st, range) ==
    IF Len(leaves(range)) = 1 THEN do_enter_in_text(st) ELSE Fault(st)

enter(st) ==
    With(safe_selection(st), LAMBDA sel :
      IF sel.s = sel.e
      THEN With(find_range(st.dom, sel.s, sel.e), LAMBDA range :
             IF RangeKind(range) = "NoNode" THEN Fault(st)
             ELSE enter_with_zero_length_selection(st, range))
      ELSE
        With(delete(st), LAMBDA o1 :
        With(StateOf(o1), LAMBDA st1 :
        With(find_range(st1.dom, safe_selection(st1).s,
                        safe_selection(st1).e), LAMBDA range1 :
          IF o1.fault THEN o1
          ELSE IF st1.start # st1.end \/ RangeKind(range1) = "NoNode"
          THEN Fault(st)
          ELSE Then(o1, enter_with_zero_length_selection(st1, range1))))))

----------------------------------------------------------------------------
(* Menu state: the action states kept by the model *)

Actions == {"Bold", "Italic", "Quote", "Undo", "Redo"}

FormatOf(action) == IF action = "Bold" THEN "bold" ELSE "italic"

\* Reversed: every leaf of the selection is inside an ancestor of the kind,
\* or the selection is inside a block of the kind.  Undo and Redo are
\* Disabled when their stack is empty.
compute_menu_state(st, prev, next) ==
    LET range == find_range(st.dom, safe_selection(st).s, safe_selection(st).e)
        ls == leaves(range)
    IN  [a \in Actions |->
           IF a = "Undo"
           THEN IF prev = <<>> THEN "Disabled" ELSE "Enabled"
           ELSE IF a = "Redo"
           THEN IF next = <<>> THEN "Disabled" ELSE "Enabled"
           ELSE IF a = "Quote"
           THEN IF \E i \in 1..Len(range.locations) :
                       range.locations[i].kind = "quote"
                THEN "Reversed" ELSE "Enabled"
           ELSE IF /\ ls # <<>>
                   /\ \A i \in 1..Len(ls) :
                         path_contains_format_node(st.dom, ls[i].node_handle,
                                                   FormatOf(a))
                THEN "Reversed" ELSE "Enabled"]

\* HashMap::new(): no action has a state yet
NoActionStates == [a \in Actions |-> "Absent"]

action_is_reversed(states, action) == states[action] = "Reversed"

----------------------------------------------------------------------------
(* menu_state.rs: the set of active toolbar buttons kept by the model, and  *)
(* the MenuState a command returns: Keep when the buttons computed for the  *)
(* selection are the stored ones, Update with the new set otherwise.        *)

\* ToolbarButton of a format
ButtonOf(kind) ==
    IF kind = "bold" THEN "Bold"
    ELSE IF kind = "italic" THEN "Italic"
    ELSE IF kind = "strike_through" THEN "StrikeThrough"
    ELSE IF kind = "underline" THEN "Underline"
    ELSE "InlineCode"

\* the Option<ToolbarButton> of a container as a set; ListType::try_from of
\* a name that is no list tag is an Err, and unwrap() panics on it
active_button(container) ==
    IF container.kind \in FormatKinds
    THEN [buttons |-> {ButtonOf(container.kind)}, fault |-> FALSE]
    ELSE IF container.kind = "link"
    THEN [buttons |-> {"Link"}, fault |-> FALSE]
    ELSE IF container.kind = "list"
    THEN [buttons |-> IF container.name = "ol" THEN {"OrderedList"}
                      ELSE IF container.name = "ul" THEN {"UnorderedList"}
                      ELSE {},
          fault |-> container.name \notin {"ol", "ul"}]
    ELSE [buttons |-> {}, fault |-> FALSE]

\* the buttons of the node at the handle and of all its ancestors
RECURSIVE active_buttons(_, _)
active_buttons(d, handle) ==
    With(lookup_node(d, handle), LAMBDA n :
    With(IF n.t = "container" THEN active_button(n)
         ELSE [buttons |-> {}, fault |-> FALSE], LAMBDA own :
    With(IF has_parent(handle) THEN active_buttons(d, parent_handle(handle))
         ELSE [buttons |-> {}, fault |-> FALSE], LAMBDA above :
      [buttons |-> own.buttons \cup above.buttons,
       fault |-> own.fault \/ above.fault])))

\* Keep, or Update and the new set stored
MenuStateOf(computed, stored) ==
    [kind |-> IF computed.buttons = stored THEN "Keep" ELSE "Update",
     active_buttons |-> computed.buttons,
     fault |-> computed.fault]

menu_state_from_handle(d, handle, stored) ==
    MenuStateOf(active_buttons(d, handle), stored)

RECURSIVE TextLocations(_, _)
TextLocations(d, locations) ==
    IF locations = <<>> THEN <<>>
    ELSE (IF lookup_node(d, Head(locations).node_handle).t = "text"
          THEN <<Head(locations)>> ELSE <<>>)
         \o TextLocations(d, Tail(locations))

\* a variant that collects the buttons of any of the locations
RECURSIVE UnionButtons(_, _, _)
UnionButtons(d, text_locations, acc) ==
    IF text_locations = <<>> THEN acc
    ELSE With(active_buttons(d, Head(text_locations).node_handle),
              LAMBDA b :
           UnionButtons(d, Tail(text_locations),
               [buttons |-> acc.buttons \cup b.buttons,
                fault |-> acc.fault \/ b.fault]))

\* the intersection of the buttons of the locations, from the first on
RECURSIVE IntersectButtons(_, _, _)
IntersectButtons(d, text_locations, acc) ==
    IF text_locations = <<>> THEN acc
    ELSE With(active_buttons(d, Head(text_locations).node_handle),
              LAMBDA b :
           IntersectButtons(d, Tail(text_locations),
               [buttons |-> acc.buttons \cap b.buttons,
                fault |-> acc.fault \/ b.fault]))

\* Vec::remove(0) panics on an empty vector
menu_state_from_locations(d, locations, stored) ==
    With(TextLocations(d, locations), LAMBDA text_locations :
      IF text_locations = <<>>
      THEN [kind |-> "Keep", active_buttons |-> stored, fault |-> TRUE]
      ELSE MenuStateOf(
               IntersectButtons(d, Tail(text_locations),
                   active_buttons(d, Head(text_locations).node_handle)),
               stored))

\* compute_menu_state of menu_state.rs; stored is self.active_buttons
compute_menu_state_buttons(st, stored) ==
    With(safe_selection(st), LAMBDA sel :
    With(find_range(st.dom, sel.s, sel.e), LAMBDA range :
      IF RangeKind(range) = "SameNode"
      THEN menu_state_from_handle(st.dom, leaves(range)[1].node_handle,
                                  stored)
      ELSE IF RangeKind(range) = "MultipleNodes"
      THEN menu_state_from_locations(st.dom, range.locations, stored)
      ELSE [kind |-> "Keep", active_buttons |-> stored, fault |-> FALSE]))

\* no function called on its own
NoCall ==
    [fn |-> "", args |-> <<>>, out |-> <<>>, fault |-> FALSE, done |-> FALSE]

\* no command yet: HashSet::new() and no MenuState returned
NoMenu ==
    [active_buttons |-> {}, kind |-> "", stored |-> {},
     prev_kind |-> "", prev_buttons |-> {}]

----------------------------------------------------------------------------
(* Parsing.  The inputs are a few HTML and Markdown texts; parse gives the  *)
(* Dom the parser builds for each and whether it reported an error.         *)

Doc(children) == AppendAll(Dom_new, children)

T(str) == new_text(str)

Htmls == {"", "ab", "a .", "a<br /><br />b", "a<strong>b</strong>",
          "<b>a</b>", "<blockquote>~a</blockquote>", "a<b"}

parse(html) ==
    IF html = "" THEN [ok |-> TRUE, dom |-> Dom_new]
    ELSE IF html = "ab"
    THEN [ok |-> TRUE, dom |-> Doc(<<T(<<"a", "b">>)>>)]
    ELSE IF html = "a ."
    THEN [ok |-> TRUE, dom |-> Doc(<<T(<<"a", " ", ".">>)>>)]
    ELSE IF html = "a<br /><br />b"
    THEN [ok |-> TRUE,
          dom |-> Doc(<<T(<<"a">>), new_line_break, new_line_break,
                        T(<<"b">>)>>)]
    ELSE IF html = "a<strong>b</strong>"
    THEN [ok |-> TRUE,
          dom |-> Doc(<<T(<<"a">>),
                        new_formatting_from_tag("strong", <<T(<<"b">>)>>)>>)]
    ELSE IF html = "<b>a</b>"
    THEN [ok |-> TRUE,
          dom |-> Doc(<<new_formatting_from_tag("b", <<T(<<"a">>)>>)>>)]
    ELSE IF html = "<blockquote>~a</blockquote>"
    THEN [ok |-> TRUE, dom |-> Doc(<<new_quote(<<T(<<Zwsp, "a">>)>>)>>)]
    ELSE IF html = "a<strong>bc</strong>"
    THEN [ok |-> TRUE,
          dom |-> Doc(<<T(<<"a">>),
                        new_formatting_from_tag("strong",
                                                <<T(<<"b", "c">>)>>)>>)]
    ELSE IF html = "ab<em>c</em>"
    THEN [ok |-> TRUE,
          dom |-> Doc(<<T(<<"a", "b">>),
                        new_formatting_from_tag("em", <<T(<<"c">>)>>)>>)]
    ELSE IF html = "<b>a<br />b</b>"
    THEN [ok |-> TRUE,
          dom |-> Doc(<<new_formatting_from_tag("b",
                            <<T(<<"a">>), new_line_break, T(<<"b">>)>>)>>)]
    ELSE IF html = "<ul><li>~</li></ul>"
    THEN [ok |-> TRUE,
          dom |-> Doc(<<new_list("ul", <<new_list_item(<<T(<<Zwsp>>)>>)>>)>>)]
    ELSE IF html = "<ol><li>~a</li></ol>"
    THEN [ok |-> TRUE,
          dom |-> Doc(<<new_list("ol",
                            <<new_list_item(<<T(<<Zwsp, "a">>)>>)>>)>>)]
    ELSE IF html = "<blockquote><p>a</p><p></p><p>b</p></blockquote>"
    THEN [ok |-> TRUE,
          dom |-> Doc(<<new_quote(<<new_paragraph(<<T(<<"a">>)>>),
                                    new_paragraph(<<>>),
                                    new_paragraph(<<T(<<"b">>)>>)>>)>>)]
    ELSE IF html = "<blockquote><p>a</p><p>b</p></blockquote>"
    THEN [ok |-> TRUE,
          dom |-> Doc(<<new_quote(<<new_paragraph(<<T(<<"a">>)>>),
                                    new_paragraph(<<T(<<"b">>)>>)>>)>>)]
    ELSE IF html = "<blockquote><p>a</p><p></p></blockquote>"
    THEN [ok |-> TRUE,
          dom |-> Doc(<<new_quote(<<new_paragraph(<<T(<<"a">>)>>),
                                    new_paragraph(<<>>)>>)>>)]
    ELSE IF html = "<blockquote><p></p><p>b</p></blockquote>"
    THEN [ok |-> TRUE,
          dom |-> Doc(<<new_quote(<<new_paragraph(<<>>),
                                    new_paragraph(<<T(<<"b">>)>>)>>)>>)]
    ELSE IF html = "<blockquote><p><em>a</em></p><p></p><p>b</p></blockquote>"
    THEN [ok |-> TRUE,
          dom |-> Doc(<<new_quote(<<new_paragraph(
                                       <<new_formatting_from_tag("em",
                                             <<T(<<"a">>)>>)>>),
                                    new_paragraph(<<>>),
                                    new_paragraph(<<T(<<"b">>)>>)>>)>>)]
    ELSE IF html = "<b>a<em>b</em></b>"
    THEN [ok |-> TRUE,
          dom |-> Doc(<<new_formatting_from_tag("b",
                            <<T(<<"a">>),
                              new_formatting_from_tag("em",
                                  <<T(<<"b">>)>>)>>)>>)]
    ELSE IF html = "<b></b>"
    THEN [ok |-> TRUE, dom |-> Doc(<<new_formatting_from_tag("b", <<>>)>>)]
    ELSE IF html = "<ul><li>~a</li><li>~</li></ul>"
    THEN [ok |-> TRUE,
          dom |-> Doc(<<new_list("ul",
                            <<new_list_item(<<T(<<Zwsp, "a">>)>>),
                              new_list_item(<<T(<<Zwsp>>)>>)>>)>>)]
    ELSE IF html = "<ul><li>~</li><li>~b</li></ul>"
    THEN [ok |-> TRUE,
          dom |-> Doc(<<new_list("ul",
                            <<new_list_item(<<T(<<Zwsp>>)>>),
                              new_list_item(<<T(<<Zwsp, "b">>)>>)>>)>>)]
    ELSE IF html = "a<ul><li>~</li></ul>"
    THEN [ok |-> TRUE,
          dom |-> Doc(<<T(<<"a">>),
                        new_list("ul", <<new_list_item(<<T(<<Zwsp>>)>>)>>)>>)]
    ELSE IF html = "abc"
    THEN [ok |-> TRUE, dom |-> Doc(<<T(<<"a", "b", "c">>)>>)]
    ELSE IF html = "<a href=\"A\">abc</a>"
    THEN [ok |-> TRUE,
          dom |-> Doc(<<new_link("A", <<T(<<"a", "b", "c">>)>>)>>)]
    ELSE IF html = "a<a href=\"A\">bc</a>"
    THEN [ok |-> TRUE,
          dom |-> Doc(<<T(<<"a">>), new_link("A", <<T(<<"b", "c">>)>>)>>)]
    ELSE IF html = "<a href=\"A\">a<strong>b</strong>c</a>"
    THEN [ok |-> TRUE,
          dom |-> Doc(<<new_link("A",
                     <<T(<<"a">>),
                       new_formatting_from_tag("strong", <<T(<<"b">>)>>),
                       T(<<"c">>)>>)>>)]
    ELSE IF html = "<em><a href=\"A\">ab</a>c</em>"
    THEN [ok |-> TRUE,
          dom |-> Doc(<<new_formatting_from_tag("em",
                     <<new_link("A", <<T(<<"a", "b">>)>>),
                       T(<<"c">>)>>)>>)]
    ELSE IF html = "<br /><br />"
    THEN [ok |-> TRUE, dom |-> Doc(<<new_line_break, new_line_break>>)]
    ELSE [ok |-> FALSE, dom |-> Doc(<<T(<<"a">>)>>)]

Markdowns == {"ab", "a**b**"}

\* MarkdownHTMLParser::to_html
markdown_to_html(markdown) ==
    IF markdown = "a**b**" THEN "a<strong>b</strong>" ELSE "ab"

----------------------------------------------------------------------------
(* base.rs: construction and set_content_* *)

Model(st, states, how) ==
    [dom |-> st.dom, start |-> st.start, end |-> st.end,
     action_states |-> states, how |-> how]

new == Model(State(Dom_new, 0, 0),
             compute_menu_state(State(Dom_new, 0, 0), <<>>, <<>>), "new")

\* from_state takes the state as it is and computes no action state
from_state(st) == Model(st, NoActionStates, "from_state")

\* from_html panics when the parser fails, so it is given only HTML that
\* parses; the offsets are taken as they come
from_html(html, start_codeunit, end_codeunit) ==
    LET st == State(parse(html).dom, start_codeunit, end_codeunit)
    IN  Model(st, compute_menu_state(st, <<>>, <<>>), "from_html")

\* set_content_from_html whose Err arm leaves the two stacks alone
set_content_from_html_err_keeps_history(m, html) ==
    LET r == parse(html)
    IN  IF r.ok
        THEN [state |-> State(r.dom, Dom_text_len(r.dom), Dom_text_len(r.dom)),
              previous_states |-> <<>>, next_states |-> <<>>]
        ELSE [m EXCEPT !.state.dom = r.dom]

\* A composer for set_content_*: [state, previous_states, next_states].
\* Ok: the cursor goes to the end of the new text.  Err: the Dom of the
\* error is installed and the selection stays as it was.  Both branches
\* clear the two stacks.
set_content_from_html(m, html) ==
    LET r == parse(html)
    IN  IF r.ok
        THEN [state |-> State(r.dom, Dom_text_len(r.dom), Dom_text_len(r.dom)),
              previous_states |-> <<>>, next_states |-> <<>>]
        ELSE [state |-> [m.state EXCEPT !.dom = r.dom],
              previous_states |-> <<>>, next_states |-> <<>>]

set_content_from_markdown(m, markdown) ==
    set_content_from_html(m, markdown_to_html(markdown))

clear(m) == set_content_from_html(m, "")

----------------------------------------------------------------------------
(* The composer as a state machine *)

CurState == State(dom, start, end)

NoState == State(Dom_new, 0, 0)

\* what the last command was, what it was given, and what held before it;
\* a composer whose record is chained also keeps the command before the
\* last one
Last(cmd, txt, s, e, fmt, pushes) ==
    [cmd |-> cmd, txt |-> txt, s |-> s, e |-> e, fmt |-> fmt,
     pre |-> CurState, prev_len |-> Len(previous_states),
     next_len |-> Len(next_states), pushes |-> pushes,
     ante |-> IF last.chain THEN last.cmd ELSE "",
     ante_pre |-> IF last.chain THEN last.pre ELSE NoState,
     ante_fmt |-> IF last.chain THEN last.fmt ELSE "",
     ante_pushes |-> 0, chain |-> last.chain, html |-> ""]

FirstLast(how) ==
    [cmd |-> how, txt |-> <<>>, s |-> 0, e |-> 0, fmt |-> "",
     pre |-> NoState, prev_len |-> 0, next_len |-> 0, pushes |-> 0,
     ante |-> "", ante_pre |-> NoState, ante_fmt |-> "", ante_pushes |-> 0,
     chain |-> FALSE, html |-> ""]

Texts == {<<"Z">>}

OkHtmls == {h \in Htmls : parse(h).ok}

InitModels ==
    {new}
    \cup {from_html(h, se[1], se[2]) :
             h \in OkHtmls,
             se \in {p \in (0..MaxSel) \X (0..MaxSel) : p[1] <= p[2]}}
    \cup {from_state(State(parse(h).dom, s, s)) : h \in OkHtmls, s \in 0..MaxSel}

Init ==
    \E m \in InitModels :
        /\ dom = m.dom
        /\ start = m.start
        /\ end = m.end
        /\ action_states = m.action_states
        /\ previous_states = <<>>
        /\ next_states = <<>>
        /\ fault = FALSE
        /\ last = FirstLast(m.how)
        /\ node = Dom_new
        /\ steps = 0
        /\ toolbar = NoMenu
        /\ call = NoCall

\* A command that panics leaves nothing to observe but the panic.
Apply(o, l) ==
    IF o.fault
    THEN /\ fault' = TRUE
         /\ steps' = steps + 1
         /\ UNCHANGED <<dom, start, end, previous_states, next_states,
                        action_states, last, node, toolbar, call>>
    ELSE /\ dom' = o.dom
         /\ start' = o.start
         /\ end' = o.end
         /\ previous_states' = previous_states \o o.pushed
         /\ next_states' = IF o.pushed = <<>> THEN next_states ELSE <<>>
         /\ action_states' =
               IF o.menu
               THEN compute_menu_state(StateOf(o),
                        previous_states \o o.pushed,
                        IF o.pushed = <<>> THEN next_states ELSE <<>>)
               ELSE action_states
         /\ last' = [l EXCEPT !.pushes = Len(o.pushed)]
         /\ fault' = FALSE
         /\ steps' = steps + 1
         /\ UNCHANGED <<node, toolbar, call>>

Ready == ~fault /\ steps < MaxCommands

CanGrow(n) == Dom_text_len(dom) + n <= MaxTextLen

Select(s, e) ==
    /\ Ready
    /\ Apply(Outcome(State(dom, s, e), FALSE, <<>>, TRUE),
             Last("select", <<>>, s, e, "", 0))

ReplaceText(txt) ==
    /\ Ready /\ CanGrow(Len(txt))
    /\ Apply(replace_text(CurState, txt),
             Last("replace_text", txt, safe_selection(CurState).s,
                  safe_selection(CurState).e, "", 0))

ReplaceTextIn(txt, s, e) ==
    /\ Ready /\ CanGrow(Len(txt))
    /\ Apply(replace_text_in(CurState, txt, s, e),
             Last("replace_text_in", txt, s, e, "", 0))

Backspace ==
    /\ Ready
    /\ Apply(backspace(CurState), Last("backspace", <<>>, 0, 0, "", 0))

Delete ==
    /\ Ready
    /\ Apply(delete(CurState), Last("delete", <<>>, 0, 0, "", 0))

DeleteIn(s, e) ==
    /\ Ready
    /\ Apply(delete_in(CurState, s, e), Last("delete_in", <<>>, s, e, "", 0))

BackspaceWord(overflow_checks) ==
    /\ Ready
    /\ Apply(backspace_word(CurState, overflow_checks),
             Last("backspace_word", <<>>, 0, 0, "", 0))

DeleteWord ==
    /\ Ready
    /\ Apply(delete_word(CurState), Last("delete_word", <<>>, 0, 0, "", 0))

Enter ==
    /\ Ready /\ CanGrow(0)
    /\ Apply(enter(CurState), Last("enter", <<>>, 0, 0, "", 0))

Format(fmt) ==
    /\ Ready
    /\ Apply(format(CurState, fmt), Last("format", <<>>, 0, 0, fmt, 0))

Quote ==
    /\ Ready /\ CanGrow(1)
    /\ Apply(quote(CurState, action_is_reversed(action_states, "Quote")),
             Last("quote", <<>>, 0, 0, "", 0))

NewLine ==
    /\ Ready /\ CanGrow(0)
    /\ Apply(new_line(CurState), Last("new_line", <<>>, 0, 0, "", 0))

\* push_state_to_history is the `pushed` part of an outcome: Apply appends
\* the pushed states to previous_states and empties next_states.
push_state_to_history(prev, st) == Append(prev, st)

\* undo(): nothing happens on an empty stack; otherwise the current state
\* goes onto next_states and the last of previous_states is installed
Undo ==
    /\ ~fault /\ previous_states # <<>>
    /\ LET st == previous_states[Len(previous_states)]
           prev == SubSeq(previous_states, 1, Len(previous_states) - 1)
           next == Append(next_states, CurState)
       IN  /\ dom' = st.dom
           /\ start' = st.start
           /\ end' = st.end
           /\ previous_states' = prev
           /\ next_states' = next
           /\ action_states' = compute_menu_state(st, prev, next)
           /\ last' = [Last("undo", <<>>, 0, 0, "", 0) EXCEPT
                          !.ante = last.cmd, !.ante_pre = last.pre,
                          !.ante_pushes = last.pushes]
    /\ UNCHANGED <<fault, node, steps, toolbar, call>>

Redo ==
    /\ ~fault /\ next_states # <<>>
    /\ LET st == next_states[Len(next_states)]
           next == SubSeq(next_states, 1, Len(next_states) - 1)
           prev == push_state_to_history(previous_states, CurState)
       IN  /\ dom' = st.dom
           /\ start' = st.start
           /\ end' = st.end
           /\ previous_states' = prev
           /\ next_states' = next
           /\ action_states' = compute_menu_state(st, prev, next)
           /\ last' = Last("redo", <<>>, 0, 0, "", 0)
    /\ UNCHANGED <<fault, node, steps, toolbar, call>>

CurModel ==
    [state |-> CurState, previous_states |-> previous_states,
     next_states |-> next_states]

\* set_content_* return create_update_replace_all_with_menu_state()
Install(m, l) ==
    /\ dom' = m.state.dom
    /\ start' = m.state.start
    /\ end' = m.state.end
    /\ previous_states' = m.previous_states
    /\ next_states' = m.next_states
    /\ action_states' = compute_menu_state(m.state, m.previous_states,
                                           m.next_states)
    /\ last' = l
    /\ steps' = steps + 1
    /\ UNCHANGED <<fault, node, toolbar, call>>

SetContentFromHtml(html) ==
    /\ Ready
    /\ Install(set_content_from_html(CurModel, html),
               [Last("set_content_from_html", <<>>, 0, 0, "", 0) EXCEPT
                   !.ante = IF parse(html).ok THEN "ok" ELSE "err",
                   !.html = html])

SetContentFromMarkdown(markdown) ==
    /\ Ready
    /\ Install(set_content_from_markdown(CurModel, markdown),
               [Last("set_content_from_markdown", <<>>, 0, 0, "", 0) EXCEPT
                   !.ante = IF parse(markdown_to_html(markdown)).ok
                            THEN "ok" ELSE "err"])

Clear ==
    /\ Ready
    /\ Install(clear(CurModel), Last("clear", <<>>, 0, 0, "", 0))

Next ==
    \/ \E s \in 0..MaxSel, e \in 0..MaxSel : Select(s, e)
    \/ \E txt \in Texts : ReplaceText(txt)
    \/ \E txt \in Texts, s \in 0..MaxSel, e \in 0..MaxSel :
          s <= e /\ ReplaceTextIn(txt, s, e)
    \/ Backspace
    \/ Delete
    \/ \E s \in 0..MaxSel, e \in 0..MaxSel : s < e /\ DeleteIn(s, e)
    \/ \E overflow_checks \in BOOLEAN : BackspaceWord(overflow_checks)
    \/ DeleteWord
    \/ Enter
    \/ \E fmt \in FormatKinds : Format(fmt)
    \/ Quote
    \/ NewLine
    \/ Undo
    \/ Redo
    \/ \E html \in Htmls : SetContentFromHtml(html)
    \/ \E markdown \in Markdowns : SetContentFromMarkdown(markdown)
    \/ Clear

Spec == Init /\ [][Next]_vars

----------------------------------------------------------------------------
(* A free-standing container, as in the tests of container_node.rs: a       *)
(* ContainerNode whose handle has been set, changed only through its own    *)
(* child operations.                                                        *)

\* nodes given to the operations: fresh ones, one with children of its
\* own, and one that carries the handle of a place it was in before
Kids ==
    {new_text(<<"a">>),
     new_line_break,
     new_formatting("bold", <<new_text(<<"b">>), new_line_break>>),
     set_handle(new_formatting("italic", <<new_text(<<"c">>)>>),
                from_raw(<<1, 0>>))}

ContainerHandles == {<<>>, <<0>>, <<1, 0>>}

\* container_with_handle: built with its children, then given its handle
container_with_handle(children, path) ==
    set_handle(new_container("", "generic", children), from_raw(path))

InitNode ==
    /\ \E path \in ContainerHandles, kid \in Kids :
          node \in {container_with_handle(<<>>, path),
                    container_with_handle(<<kid>>, path)}
    /\ dom = Dom_new
    /\ start = 0
    /\ end = 0
    /\ previous_states = <<>>
    /\ next_states = <<>>
    /\ action_states = NoActionStates
    /\ fault = FALSE
    /\ last = FirstLast("container")
    /\ steps = 0
    /\ toolbar = NoMenu
    /\ call = NoCall

NodeStep(n, cmd) ==
    /\ node' = n
    /\ last' = [last EXCEPT !.cmd = cmd]
    /\ UNCHANGED <<dom, start, end, previous_states, next_states,
                   action_states, fault, steps, toolbar, call>>

AppendChild(kid) ==
    /\ is_set(node.handle)
    /\ Len(node.children) < MaxChildren
    /\ NodeStep(append_child(node, kid), "append_child")

InsertChild(index, kid) ==
    /\ is_set(node.handle)
    /\ Len(node.children) < MaxChildren
    /\ index <= Len(node.children)
    /\ NodeStep(insert_child(node, index, kid), "insert_child")

RemoveChild(index) ==
    /\ is_set(node.handle)
    /\ index < Len(node.children)
    /\ NodeStep(remove_child(node, index), "remove_child")

ReplaceChild(index, kids) ==
    /\ is_set(node.handle)
    /\ index < Len(node.children)
    /\ Len(node.children) - 1 + Len(kids) <= MaxChildren
    /\ NodeStep(replace_child(node, index, kids), "replace_child")

NextNode ==
    \/ \E kid \in Kids : AppendChild(kid)
    \/ \E index \in 0..MaxChildren, kid \in Kids : InsertChild(index, kid)
    \/ \E index \in 0..MaxChildren : RemoveChild(index)
    \/ \E index \in 0..MaxChildren, k1 \in Kids, k2 \in Kids :
          \E kids \in {<<>>, <<k1>>, <<k1, k2>>} : ReplaceChild(index, kids)

SpecNode == InitNode /\ [][NextNode]_vars

----------------------------------------------------------------------------
(* Inline content: a composer made from HTML with text, line breaks and     *)
(* formatting, given format and quote commands one after the other.  The   *)
(* record of the last command is chained, so that the state before a pair  *)
(* of commands is at hand.                                                  *)

InlineHtmls ==
    {"", "ab", "a<br /><br />b", "a<strong>b</strong>", "<b>a</b>",
     "a<strong>bc</strong>", "ab<em>c</em>", "<b>a<br />b</b>"}

InitInline ==
    \E html \in InlineHtmls, s \in 0..MaxSel, e \in 0..MaxSel :
        /\ s <= e
        /\ dom = from_html(html, s, e).dom
        /\ start = s
        /\ end = e
        /\ action_states = from_html(html, s, e).action_states
        /\ previous_states = <<>>
        /\ next_states = <<>>
        /\ fault = FALSE
        /\ last = [FirstLast("from_html") EXCEPT !.chain = TRUE]
        /\ node = Dom_new
        /\ steps = 0
        /\ toolbar = NoMenu
        /\ call = NoCall

NextInline ==
    \/ \E fmt \in FormatKinds : Format(fmt)
    \/ Quote

SpecInline == InitInline /\ [][NextInline]_vars

----------------------------------------------------------------------------
(* Lists.  A composer given a Dom with a list, a cursor being moved about   *)
(* and new lines being added.                                               *)

ListHtmls ==
    {"<ul><li>~</li></ul>", "<ol><li>~a</li></ol>",
     "<ul><li>~a</li><li>~</li></ul>", "<ul><li>~</li><li>~b</li></ul>",
     "a<ul><li>~</li></ul>"}

InitList ==
    \E html \in ListHtmls, s \in 0..MaxSel :
        /\ dom = from_html(html, s, s).dom
        /\ start = s /\ end = s
        /\ action_states = from_html(html, s, s).action_states
        /\ previous_states = <<>> /\ next_states = <<>>
        /\ fault = FALSE
        /\ last = FirstLast("from_html")
        /\ node = Dom_new /\ steps = 0
        /\ toolbar = NoMenu
        /\ call = NoCall

NextList ==
    \/ \E s \in 0..MaxSel : Select(s, s)
    \/ NewLine

SpecList == InitList /\ [][NextList]_vars

----------------------------------------------------------------------------
(* Quotes that hold paragraphs: a cursor and new_line                      *)

QuoteHtmls ==
    {"<blockquote><p>a</p><p></p><p>b</p></blockquote>",
     "<blockquote><p>a</p><p>b</p></blockquote>",
     "<blockquote><p>a</p><p></p></blockquote>",
     "<blockquote><p></p><p>b</p></blockquote>",
     "<blockquote><p><em>a</em></p><p></p><p>b</p></blockquote>"}

InitQuote ==
    \E html \in QuoteHtmls, s \in 0..(MaxSel + 1) :
        /\ dom = from_html(html, s, s).dom
        /\ start = s /\ end = s
        /\ action_states = from_html(html, s, s).action_states
        /\ previous_states = <<>> /\ next_states = <<>>
        /\ fault = FALSE
        /\ last = FirstLast("from_html")
        /\ node = Dom_new /\ steps = 0
        /\ toolbar = NoMenu
        /\ call = NoCall

NextQuote ==
    \/ \E s \in 0..(MaxSel + 1) : Select(s, s)
    \/ NewLine

SpecQuote == InitQuote /\ [][NextQuote]_vars

----------------------------------------------------------------------------
(* Links.  set_link(url): with the selection inside one link, that link    *)
(* gets the url; a cursor outside every link changes nothing; any other    *)
(* selection is cut out of the deepest container that holds all of it,     *)
(* freed of the links it had, and wrapped in one new link.  The selection   *)
(* stays where it was.                                                      *)

\* the children without the link containers among them, whose children
\* take their place
RECURSIVE Unlink(_)
Unlink(children) ==
    IF children = <<>> THEN <<>>
    ELSE (IF Head(children).t = "container" /\ Head(children).kind = "link"
          THEN Unlink(Head(children).children)
          ELSE IF Head(children).t = "container"
          THEN <<[Head(children) EXCEPT !.children = Unlink(@)]>>
          ELSE <<Head(children)>>)
         \o Unlink(Tail(children))

\* the locations of the links that hold the whole selection, as indexes
LinksAround(range, s, e) ==
    {i \in 1..Len(range.locations) :
        /\ range.locations[i].kind = "link"
        /\ range.locations[i].position <= s
        /\ e <= range.locations[i].position + range.locations[i].length}

set_link_in_range(st, url, range, s, e) ==
    With(LinksAround(range, s, e), LAMBDA around :
      IF around # {}
      THEN With(range.locations[CHOOSE i \in around :
                                   \A j \in around : i <= j].node_handle,
                LAMBDA h :
             [st EXCEPT !.dom = Dom_replace(st.dom, h,
                 <<new_link(url, lookup_node(st.dom, h).children)>>)])
      ELSE IF s = e \/ leaves(range) = <<>> THEN st
      ELSE
        With(leaves(range), LAMBDA ls :
        With(CommonPrefixLen(parent_handle(ls[1].node_handle).path,
                             parent_handle(ls[Len(ls)].node_handle).path),
             LAMBDA k :
        With(from_raw(SubSeq(ls[1].node_handle.path, 1, k)), LAMBDA ah :
        With(lookup_node(st.dom, ah), LAMBDA ancestor :
        With(SplitChildren(ancestor.children,
                 SubSeq(ls[Len(ls)].node_handle.path, k + 1,
                        Len(ls[Len(ls)].node_handle.path)),
                 ls[Len(ls)].end_offset), LAMBDA upto :
        With(SplitChildren(upto.left,
                 SubSeq(ls[1].node_handle.path, k + 1,
                        Len(ls[1].node_handle.path)),
                 ls[1].start_offset), LAMBDA cut :
          [st EXCEPT !.dom = Rehandle(store_node(st.dom, ah,
              [ancestor EXCEPT !.children =
                  cut.left \o <<new_link(url, Unlink(cut.right))>>
                           \o upto.right]))])))))))

set_link(st, url) ==
    With(safe_selection(st), LAMBDA sel :
      Outcome(set_link_in_range(st, url,
                  find_range(st.dom, sel.s, sel.e), sel.s, sel.e),
              FALSE, <<st>>, TRUE))

Urls == {"B", "C"}

LinkHtmls ==
    {"abc", "<a href=\"A\">abc</a>", "a<a href=\"A\">bc</a>",
     "<a href=\"A\">a<strong>b</strong>c</a>",
     "<em><a href=\"A\">ab</a>c</em>"}

InitLink ==
    \E html \in LinkHtmls, s \in 0..MaxSel, e \in 0..MaxSel :
        /\ s <= e
        /\ dom = from_html(html, s, e).dom
        /\ start = s /\ end = e
        /\ action_states = from_html(html, s, e).action_states
        /\ previous_states = <<>> /\ next_states = <<>>
        /\ fault = FALSE
        /\ last = FirstLast("from_html")
        /\ node = Dom_new /\ steps = 0
        /\ toolbar = NoMenu
        /\ call = NoCall

SetLink(url) ==
    /\ Ready
    /\ Apply(set_link(CurState, url), Last("set_link", <<>>, 0, 0, url, 0))

NextLink == \E url \in Urls : SetLink(url)

SpecLink == InitLink /\ [][NextLink]_vars

----------------------------------------------------------------------------
(* The toolbar of menu_state.rs: every command ends in                     *)
(* create_update_replace_all, which asks compute_menu_state for the        *)
(* MenuState to return.                                                    *)

MenuHtmls ==
    {"", "ab", "a<br /><br />b", "a<strong>b</strong>", "<b>a</b>",
     "ab<em>c</em>", "<b>a<em>b</em></b>", "<b></b>", "<br /><br />",
     "<ol><li>~a</li></ol>", "<ul><li>~a</li><li>~</li></ul>",
     "a<a href=\"A\">bc</a>", "<em><a href=\"A\">ab</a>c</em>"}

InitMenu ==
    \E html \in MenuHtmls, s \in 0..MaxSel, e \in 0..MaxSel :
        /\ s <= e
        /\ dom = from_html(html, s, e).dom
        /\ start = s /\ end = e
        /\ action_states = NoActionStates
        /\ previous_states = <<>> /\ next_states = <<>>
        /\ fault = FALSE
        /\ last = FirstLast("from_html")
        /\ node = Dom_new /\ steps = 0
        /\ toolbar = NoMenu
        /\ call = NoCall

\* the command has run and its update is built; a panic on the way leaves
\* nothing to observe but the panic
MenuStep(o, prev, next, l) ==
    With(compute_menu_state_buttons(StateOf(o), toolbar.active_buttons),
         LAMBDA m :
      IF o.fault \/ m.fault
      THEN /\ fault' = TRUE
           /\ steps' = steps + 1
           /\ UNCHANGED <<dom, start, end, previous_states, next_states,
                          action_states, last, node, toolbar, call>>
      ELSE /\ dom' = o.dom
           /\ start' = o.start
           /\ end' = o.end
           /\ previous_states' = prev
           /\ next_states' = next
           /\ toolbar' = [active_buttons |-> m.active_buttons,
                          kind |-> m.kind,
                          stored |-> toolbar.active_buttons,
                          prev_kind |-> toolbar.kind,
                          prev_buttons |-> toolbar.active_buttons]
           /\ last' = [l EXCEPT !.pushes = Len(o.pushed)]
           /\ fault' = FALSE
           /\ steps' = steps + 1
           /\ UNCHANGED <<action_states, node, call>>)

MenuSelect(s, e) ==
    /\ Ready
    /\ MenuStep(Outcome(State(dom, s, e), FALSE, <<>>, TRUE),
                previous_states, next_states,
                Last("select", <<>>, s, e, "", 0))

MenuFormat(fmt) ==
    /\ Ready
    /\ With(format(CurState, fmt), LAMBDA o :
         MenuStep(o, previous_states \o o.pushed,
                  IF o.pushed = <<>> THEN next_states ELSE <<>>,
                  Last("format", <<>>, 0, 0, fmt, 0)))

MenuBackspace ==
    /\ Ready
    /\ With(backspace(CurState), LAMBDA o :
         MenuStep(o, previous_states \o o.pushed,
                  IF o.pushed = <<>> THEN next_states ELSE <<>>,
                  Last("backspace", <<>>, 0, 0, "", 0)))

\* clear is set_content_from_html(""), whose update asks the
\* compute_menu_state of menu_state.rs like every other command
MenuClear ==
    /\ Ready
    /\ With(clear(CurModel), LAMBDA m :
         MenuStep(Outcome(m.state, FALSE, <<>>, TRUE),
                  m.previous_states, m.next_states,
                  Last("clear", <<>>, 0, 0, "", 0)))

NextMenu ==
    \/ \E s \in 0..MaxSel, e \in 0..MaxSel : s <= e /\ MenuSelect(s, e)
    \/ \E fmt \in FormatKinds : MenuFormat(fmt)
    \/ MenuBackspace
    \/ MenuClear

SpecMenu == InitMenu /\ [][NextMenu]_vars

----------------------------------------------------------------------------
(* Properties *)

MutatingCommands ==
    {"replace_text", "replace_text_in", "backspace", "delete", "delete_in",
     "format", "new_line", "quote"}

\* C1: every mutating command (replace_text, replace_text_in, backspace,
\* delete, delete_in, format, new_line, quote) pushes the state it started
\* from onto previous_states and leaves next_states empty.
C1_PushesStartingState ==
    last.cmd \in MutatingCommands =>
        /\ Len(previous_states) = last.prev_len + 1
        /\ previous_states[Len(previous_states)] = last.pre
        /\ next_states = <<>>

\* C2: one undo() after a single mutating command restores the Dom html
\* and the selection that held before the command; stated here for
\* backspace_word and delete_word, which the claim names.
C2_UndoRestoresPreState ==
    (/\ last.cmd = "undo"
     /\ last.ante \in {"backspace_word", "delete_word"}
     /\ last.ante_pushes > 0) =>
        /\ to_html(dom) = to_html(last.ante_pre.dom)
        /\ start = last.ante_pre.start
        /\ end = last.ante_pre.end

InText(st) ==
    /\ 0 <= st.start /\ st.start <= Dom_text_len(st.dom)
    /\ 0 <= st.end /\ st.end <= Dom_text_len(st.dom)

\* C3: the selection offsets lie within [0, text length]: construction by
\* from_html establishes it, and select, replace_text, backspace, delete,
\* quote, new_line and set_content_from_html keep it.
C3_SelectionWithinText ==
    /\ last.cmd = "from_html" => InText(CurState)
    /\ (/\ last.cmd \in {"select", "replace_text", "backspace", "delete",
                          "quote", "new_line", "set_content_from_html"}
        /\ InText(last.pre)) => InText(CurState)

RECURSIVE HandlesAgree(_)
HandlesAgree(n) ==
    \A i \in 1..Len(n.children) :
        /\ n.children[i].handle = child_handle(n.handle, i - 1)
        /\ HandlesAgree(n.children[i])

\* C4: after any sequence of append_child, insert_child, remove_child and
\* replace_child on a container whose handle is set, every child at index
\* i has the container's handle followed by i, and so on for every
\* descendant: the path of a node below the container leads to that node.
C4_ChildHandlesFollowParent ==
    /\ HandlesAgree(node)
    /\ \A i \in 1..Len(node.children) :
          LookupPath(node, SubSeq(node.children[i].handle.path,
                                  Len(node.handle.path) + 1,
                                  Len(node.children[i].handle.path)))
            = node.children[i]

\* a removal at the front has renumbered children that came after it, one
\* of them a container with children of its own
C4_Witness ==
    /\ last.cmd = "remove_child"
    /\ Len(node.children) >= 2
    /\ node.handle.path # <<>>
    /\ \E i \in 1..Len(node.children) : node.children[i].children # <<>>

RECURSIVE NoEmptyText(_)
NoEmptyText(n) ==
    /\ n.t = "text" => n.data # <<>>
    /\ \A i \in 1..Len(n.children) : NoEmptyText(n.children[i])

\* C5: a completed command leaves no Text node with empty data in a Dom
\* that had none; a constructed model has none; format(kind) on a
\* selection at the start or the end of its text node and format(kind) on
\* a Dom without nodes are such commands.
C5_NoEmptyTextNode ==
    /\ last.cmd \in {"new", "from_html"} => NoEmptyText(dom)
    /\ (last.cmd = "format" /\ NoEmptyText(last.pre.dom)) => NoEmptyText(dom)

\* C6: replace_text_in(new, s, e) with 0 <= s <= e <= text length turns
\* the flat text into old[0..s) + new + old[e..).
C6_ReplaceTextInFlatText ==
    (/\ last.cmd = "replace_text_in"
     /\ 0 <= last.s /\ last.s <= last.e
     /\ last.e <= text_len(last.pre.dom)) =>
        to_raw_text(dom) =
            SubSeq(to_raw_text(last.pre.dom), 1, last.s)
            \o last.txt
            \o SubSeq(to_raw_text(last.pre.dom), last.e + 1,
                      text_len(last.pre.dom))

\* C7: after replace_text_in(new, s, e) the selection is a collapsed cursor
\* at s + |new|; on a Dom without any node it is at |new| whatever s is.
C7_CursorAfterReplaceTextIn ==
    last.cmd = "replace_text_in" =>
        /\ start = end
        /\ start = IF last.pre.dom.children = <<>> THEN Len(last.txt)
                   ELSE last.s + Len(last.txt)

\* text was typed into a Dom without nodes at an offset that is not 0
C7_Witness ==
    /\ last.cmd = "replace_text_in"
    /\ last.pre.dom.children = <<>>
    /\ last.s > 0
    /\ last.txt # <<>>
    /\ start = Len(last.txt)

\* C8: after every command, and in a freshly constructed model, Undo is
\* Disabled exactly when previous_states is empty and Redo is Disabled
\* exactly when next_states is empty.
C8_UndoRedoDisabledIffEmpty ==
    /\ (action_states["Undo"] = "Disabled") <=> (previous_states = <<>>)
    /\ (action_states["Redo"] = "Disabled") <=> (next_states = <<>>)

\* C9: after set_content_from_html, set_content_from_markdown or clear,
\* whether parsing succeeded or failed, both stacks are empty.
C9_SetContentClearsHistory ==
    last.cmd \in {"set_content_from_html", "set_content_from_markdown",
                  "clear"} =>
        /\ previous_states = <<>>
        /\ next_states = <<>>

\* HTML that fails to parse was set while a stack held a state
C9_Witness ==
    /\ last.cmd = "set_content_from_html"
    /\ last.ante = "err"
    /\ last.prev_len + last.next_len > 0
    /\ previous_states = <<>>
    /\ next_states = <<>>

\* the text leaves of the Dom of st that hold the whole selection of st
HoldingTextLeaves(st) ==
    LET all == Walk(st.dom, 0)
    IN  {all[i] : i \in {j \in 1..Len(all) :
                    /\ all[j].kind = "text"
                    /\ all[j].position <= safe_selection(st).s
                    /\ safe_selection(st).e
                         <= all[j].position + all[j].length}}

IsText(n, data) == n.t = "text" /\ n.data = data

\* C10: format(kind) on a non-empty selection inside a single text node
\* puts three siblings in the place of the node (the text before the
\* selection, a formatting container of the kind around exactly the
\* selected text, the text after it) and leaves start and end as they were.
C10_FormatSplitsInThree ==
    (/\ last.cmd = "format"
     /\ last.pre.start # last.pre.end) =>
        \A w \in HoldingTextLeaves(last.pre) :
            LET old == lookup_node(last.pre.dom, w.node_handle)
                from == safe_selection(last.pre).s - w.position
                to == safe_selection(last.pre).e - w.position
                before == lookup_node(last.pre.dom,
                                      parent_handle(w.node_handle))
                after == lookup_node(dom, parent_handle(w.node_handle))
                i == index_in_parent(w.node_handle) + 1
            IN  /\ Len(after.children) = Len(before.children) + 2
                /\ IsText(after.children[i], SubSeq(old.data, 1, from))
                /\ after.children[i + 1].t = "container"
                /\ after.children[i + 1].kind = last.fmt
                /\ Len(after.children[i + 1].children) = 1
                /\ IsText(after.children[i + 1].children[1],
                          SubSeq(old.data, from + 1, to))
                /\ IsText(after.children[i + 2],
                          SubSeq(old.data, to + 1, Len(old.data)))
                /\ \A j \in 1..Len(before.children) :
                      j # i => to_html(before.children[j]) =
                               to_html(after.children[IF j < i THEN j
                                                      ELSE j + 2])
                /\ start = last.pre.start
                /\ end = last.pre.end

\* the middle of a text node was formatted: text is left on both sides
C10_Witness ==
    /\ last.cmd = "format"
    /\ last.pre.start # last.pre.end
    /\ \E w \in HoldingTextLeaves(last.pre) :
          /\ w.position < safe_selection(last.pre).s
          /\ safe_selection(last.pre).e < w.position + w.length
    /\ previous_states # <<>>

\* the leaves of the selection of st are all inside an ancestor of the
\* format, or all outside
UniformFormat(st, fmt) ==
    LET ls == leaves(find_range(st.dom, safe_selection(st).s,
                                safe_selection(st).e))
    IN  \/ \A i \in 1..Len(ls) :
              path_contains_format_node(st.dom, ls[i].node_handle, fmt)
        \/ \A i \in 1..Len(ls) :
              ~path_contains_format_node(st.dom, ls[i].node_handle, fmt)

\* C11: format(kind) called twice in a row on a non-empty selection whose
\* leaves are all inside or all outside a formatting container of the kind
\* leaves the Dom html as it was before the first call.
C11_FormatTwiceRestoresHtml ==
    (/\ last.cmd = "format" /\ last.ante = "format"
     /\ last.ante_fmt = last.fmt
     /\ last.ante_pre.start # last.ante_pre.end
     /\ InText(last.ante_pre)
     /\ UniformFormat(last.ante_pre, last.fmt)) =>
        to_html(dom) = to_html(last.ante_pre.dom)

\* the selection of st lies inside a Quote
InQuote(st) ==
    LET range == find_range(st.dom, safe_selection(st).s,
                            safe_selection(st).e)
    IN  \E i \in 1..Len(range.locations) :
            range.locations[i].kind = "quote"

\* the selection of st lies inside a Quote that begins with a Zwsp, leaves
\* and all
WrappedInQuote(st) ==
    LET range == find_range(st.dom, safe_selection(st).s,
                            safe_selection(st).e)
        ls == leaves(range)
    IN  /\ \E i \in 1..Len(range.locations) :
              /\ range.locations[i].kind = "quote"
              /\ to_raw_text(lookup_node(st.dom,
                      range.locations[i].node_handle))[1] = Zwsp
              /\ \A j \in 1..Len(ls) :
                    IsPrefix(range.locations[i].node_handle.path,
                             ls[j].node_handle.path)

\* the first of the two calls: quote() on a selection that is not inside a Quote wraps
\* the selected content in a Quote that begins with a Zwsp and moves the
\* selection by the number of Zwsp put in before it.
C12_QuoteWraps ==
    (/\ last.cmd = "quote" /\ ~InQuote(last.pre) /\ InText(last.pre)) =>
        /\ WrappedInQuote(CurState)
        /\ start = last.pre.start
                      + Dom_text_len(dom) - Dom_text_len(last.pre.dom)
        /\ end = last.pre.end
                      + Dom_text_len(dom) - Dom_text_len(last.pre.dom)

\* C12: quote() called twice in a row, from a state whose selection is not
\* inside a Quote, leaves the Dom html and the selection as they were before
\* the first call.
C12_QuoteTwice ==
    (/\ last.cmd = "quote" /\ last.ante = "quote"
     /\ ~InQuote(last.ante_pre) /\ InText(last.ante_pre)) =>
        /\ to_html(dom) = to_html(last.ante_pre.dom)
        /\ start = last.ante_pre.start
        /\ end = last.ante_pre.end

\* the location of the block the cursor of st is in: the deepest block of
\* the range, the root itself for a Dom without nodes to find
CursorBlock(st) ==
    With(find_range(st.dom, safe_selection(st).s, safe_selection(st).e),
         LAMBDA range :
      IF range.locations = <<>>
      THEN [kind |-> "generic", before |-> <<>>, after |-> <<>>]
      ELSE With(deepest_block_node(range), LAMBDA b :
           With(to_raw_text(lookup_node(st.dom, b.node_handle)), LAMBDA raw :
             [kind |-> b.kind,
              before |-> SubSeq(raw, 1, b.start_offset),
              after |-> SubSeq(raw, b.start_offset + 1, Len(raw))])))

\* the cursor of st is at the start of a Paragraph holding the text after,
\* that comes right after a Paragraph holding the text before
SplitAround(st, before, after) ==
    With(find_range(st.dom, st.start, st.end), LAMBDA range :
      \E i \in 1..Len(range.locations) :
        With(range.locations[i], LAMBDA loc :
          /\ loc.kind = "paragraph"
          /\ loc.start_offset = 0
          /\ loc.position = st.start
          /\ index_in_parent(loc.node_handle) > 0
          /\ to_raw_text(lookup_node(st.dom, loc.node_handle)) = after
          /\ With(LookupPath(st.dom,
                     SubSeq(loc.node_handle.path, 1,
                            Len(loc.node_handle.path) - 1)
                     \o <<index_in_parent(loc.node_handle) - 1>>),
                  LAMBDA prev : /\ prev.t = "container"
                                /\ prev.kind = "paragraph"
                                /\ to_raw_text(prev) = before)))

\* C13: new_line with a collapsed cursor inside a Paragraph, or directly in
\* the root, splits the block at the cursor: the text before the cursor stays
\* in the first paragraph, the text after it is in a new Paragraph right
\* after, no text is lost or duplicated, and the selection advances by 1 to
\* the start of the new paragraph.
C13_NewLineSplitsBlock ==
    (/\ last.cmd = "new_line"
     /\ last.pre.start = last.pre.end
     /\ InText(last.pre)
     /\ CursorBlock(last.pre).kind \in {"generic", "paragraph"}) =>
        /\ to_raw_text(dom) = to_raw_text(last.pre.dom)
        /\ start = last.pre.start + 1
        /\ end = start
        /\ SplitAround(CurState, CursorBlock(last.pre).before,
                       CursorBlock(last.pre).after)

\* the list item the cursor of st is in, when it holds nothing but a Zwsp
InEmptyListItem(st) ==
    With(find_range(st.dom, safe_selection(st).s, safe_selection(st).e),
         LAMBDA range :
      /\ range.locations # <<>>
      /\ deepest_block_node(range).kind = "list_item"
      /\ is_empty_list_item(lookup_node(st.dom,
                                deepest_block_node(range).node_handle)))

\* the handle of that item
EmptyItemHandle(st) ==
    deepest_block_node(find_range(st.dom, safe_selection(st).s,
                                  safe_selection(st).e)).node_handle

\* the item at ih is gone from pre, an empty Paragraph follows its list, and
\* the list is gone too when the item was its only one
ItemLeftList(pre, ih, d) ==
    With(parent_handle(ih), LAMBDA lh :
    With(lookup_node(pre, lh), LAMBDA list :
      IF Len(list.children) = 1
      THEN /\ contains(d, lh)
           /\ to_html(lookup_node(d, lh)) = to_html(new_paragraph(<<>>))
           /\ to_html(d) = to_html(Dom_replace(pre, lh,
                                               <<new_paragraph(<<>>)>>))
      ELSE /\ contains(d, next_sibling(lh))
           /\ to_html(lookup_node(d, next_sibling(lh)))
                 = to_html(new_paragraph(<<>>))
           /\ to_html(lookup_node(d, lh))
                 = to_html(remove_child(list, index_in_parent(ih)))))

\* the handle of the Paragraph that new_line put in
NewParagraphHandle(pre, ih) ==
    IF Len(lookup_node(pre, parent_handle(ih)).children) = 1
    THEN parent_handle(ih) ELSE next_sibling(parent_handle(ih))

\* the cursor of st is at an offset of the text, inside the node at h
CursorInside(st, h) ==
    /\ st.start = st.end
    /\ InText(st)
    /\ \E i \in 1..Len(find_range(st.dom, st.start, st.end).locations) :
          find_range(st.dom, st.start, st.end).locations[i].node_handle = h

\* the Dom half alone: the item, the paragraph and the list
C14_DomPart ==
    (/\ last.cmd = "new_line" /\ last.pre.start = last.pre.end
     /\ InText(last.pre) /\ InEmptyListItem(last.pre)) =>
        ItemLeftList(last.pre.dom, EmptyItemHandle(last.pre), dom)

\* C14: new_line with the cursor in a ListItem that holds only a Zwsp
\* removes that item, puts an empty Paragraph right after the list, removes
\* the list when it has no items left, and leaves the cursor inside the new
\* paragraph at a valid offset.
C14_EmptyItemExitsList ==
    (/\ last.cmd = "new_line" /\ last.pre.start = last.pre.end
     /\ InText(last.pre) /\ InEmptyListItem(last.pre)) =>
        /\ ItemLeftList(last.pre.dom, EmptyItemHandle(last.pre), dom)
        /\ CursorInside(CurState,
               NewParagraphHandle(last.pre.dom, EmptyItemHandle(last.pre)))

\* the outcome o of a command on st is no fault and no change of the html
\* or of the selection
NoOp(st, o) ==
    /\ ~o.fault
    /\ to_html(o.dom) = to_html(st.dom)
    /\ o.start = st.start
    /\ o.end = st.end

C15_BackspaceAtStart ==
    /\ last.cmd = "backspace"
    /\ last.pre.start = 0 /\ last.pre.end = 0
    /\ Dom_text_len(last.pre.dom) > 0

\* the links of a tree, in document order
RECURSIVE LinksOf(_)
LinksOf(n) ==
    IF n.t # "container" THEN <<>>
    ELSE (IF n.kind = "link" THEN <<n>> ELSE <<>>)
         \o (IF n.children = <<>> THEN <<>>
             ELSE LinksOf(Head(n.children))
                  \o LinksOf([n EXCEPT !.kind = "generic",
                                       !.children = Tail(@)]))

\* the handle of the link the selection of st lies in, from one end to the
\* other
LinkAround(st) ==
    With(find_range(st.dom, st.start, st.end), LAMBDA range :
      range.locations[CHOOSE i \in LinksAround(range, st.start, st.end) :
          \A j \in LinksAround(range, st.start, st.end) : i <= j
      ].node_handle)

InsideOneLink(st) ==
    /\ st.start < st.end
    /\ InText(st)
    /\ LinksAround(find_range(st.dom, st.start, st.end),
                   st.start, st.end) # {}

\* C16: set_link(url) with a non-empty selection that lies entirely inside
\* one existing Link replaces the url of that link by the new url, keeps the
\* whole link text in one single link, and keeps the selection on the same
\* range of characters.
C16_SetLinkReplacesUrl ==
    (last.cmd = "set_link" /\ InsideOneLink(last.pre)) =>
        /\ contains(dom, LinkAround(last.pre))
        /\ lookup_node(dom, LinkAround(last.pre)).kind = "link"
        /\ lookup_node(dom, LinkAround(last.pre)).attrs
              = <<<<"href", last.fmt>>>>
        /\ to_raw_text(lookup_node(dom, LinkAround(last.pre)))
              = to_raw_text(lookup_node(last.pre.dom, LinkAround(last.pre)))
        /\ Len(LinksOf(dom)) = Len(LinksOf(last.pre.dom))
        /\ to_raw_text(dom) = to_raw_text(last.pre.dom)
        /\ start = last.pre.start /\ end = last.pre.end

\* the url of a link was replaced with a part of its text selected
C16_Witness ==
    /\ last.cmd = "set_link" /\ InsideOneLink(last.pre)
    /\ last.pre.end - last.pre.start
          < Len(to_raw_text(lookup_node(last.pre.dom, LinkAround(last.pre))))
    /\ to_html(dom) # to_html(last.pre.dom)

\* C17: when set_content_from_html is given html that fails to parse, the
\* Dom is replaced by the Dom the parser recovered, both history stacks are
\* cleared, and the update that goes back to the host carries the html of
\* that Dom with a selection that is valid for it.
C17_ParseFailureRecovers ==
    (/\ last.cmd = "set_content_from_html" /\ last.ante = "err"
     /\ InText(last.pre)) =>
        /\ to_html(dom) = to_html(parse(last.html).dom)
        /\ previous_states = <<>>
        /\ next_states = <<>>
        /\ InText(CurState)

\* the Dom and the history alone
C17_DomAndHistory ==
    (/\ last.cmd = "set_content_from_html" /\ last.ante = "err"
     /\ InText(last.pre)) =>
        /\ to_html(dom) = to_html(parse(last.html).dom)
        /\ previous_states = <<>>
        /\ next_states = <<>>

\* every formatting container of the tree is written with the tag of its
\* format
RECURSIVE CanonicalTags(_)
CanonicalTags(n) ==
    \/ n.t # "container"
    \/ /\ is_formatting_node(n) => n.name = tag(n.kind)
       /\ \A i \in 1..Len(n.children) : CanonicalTags(n.children[i])

\* C18: every formatting container is serialized with its canonical tag
\* (strong for Bold, em for Italic, del for StrikeThrough, u for Underline,
\* code for InlineCode), also when the container was created by parsing html
\* that used <b> or <i>.
C18_CanonicalTags == CanonicalTags(dom)

\* for every code unit of the text of n, in order, the formats of the
\* containers it lies under
RECURSIVE CharFormats(_, _), CharFormatsOfChildren(_, _, _)
CharFormats(n, inherited) ==
    IF n.t = "text" THEN AsSeq([i \in 1..Len(n.data) |-> inherited])
    ELSE IF n.t = "br" THEN <<inherited>>
    ELSE CharFormatsOfChildren(n.children, 1,
             IF is_formatting_node(n) THEN inherited \cup {n.kind}
             ELSE inherited)
CharFormatsOfChildren(cs, i, inherited) ==
    IF i > Len(cs) THEN <<>>
    ELSE CharFormats(cs[i], inherited)
         \o (IF cs[i].kind = "paragraph" /\ i < Len(cs)
             THEN <<inherited>> ELSE <<>>)
         \o CharFormatsOfChildren(cs, i + 1, inherited)

\* no two containers of the format are next to each other in the tree
RECURSIVE NoAdjacentFormat(_, _)
NoAdjacentFormat(n, fmt) ==
    \/ n.t # "container"
    \/ /\ \A i \in 1..(Len(n.children) - 1) :
             ~(/\ is_format_node(n.children[i], fmt)
               /\ is_format_node(n.children[i + 1], fmt))
       /\ \A i \in 1..Len(n.children) : NoAdjacentFormat(n.children[i], fmt)

\* the selection of st spans several leaves, one of them not under fmt
SeveralLeavesToFormat(st, fmt) ==
    With(leaves(find_range(st.dom, st.start, st.end)), LAMBDA ls :
      /\ st.start < st.end
      /\ InText(st)
      /\ Len(ls) > 1
      /\ \E i \in 1..Len(ls) :
            ~path_contains_format_node(st.dom, ls[i].node_handle, fmt))

\* what C19 asks of the state after, given the state before
Extended(pre, fmt, post) ==
    With(CharFormats(pre.dom, {}), LAMBDA was :
    With(CharFormats(post.dom, {}), LAMBDA is :
      /\ to_raw_text(post.dom) = to_raw_text(pre.dom)
      /\ Len(is) = Len(was)
      /\ \A i \in 1..Len(is) :
            IF pre.start < i /\ i <= pre.end
            THEN fmt \in is[i] ELSE is[i] = was[i]
      /\ NoAdjacentFormat(post.dom, fmt)))

\* C19: when format(kind) is applied to a selection that spans several
\* leaves of which at least one has no ancestor of that kind, afterwards
\* every code unit of the selection lies under a formatting container of
\* that kind, code units outside the selection keep the formatting they had,
\* the flat text is unchanged, and containers of that kind that end up
\* adjacent are merged into one.
C19_FormatExtends ==
    /\ (last.cmd = "format" /\ SeveralLeavesToFormat(last.pre, last.fmt))
          => Extended(last.pre, last.fmt, CurState)
    /\ \A fmt \in FormatKinds :
          SeveralLeavesToFormat(CurState, fmt)
            => ~format(CurState, fmt).fault

\* the characters before position c that form one run of the class of the
\* character just before c: the position where that run starts
RECURSIVE RunStart(_, _)
RunStart(text, c) ==
    IF c > 1 /\ get_char_type(<<text[c - 1]>>) = get_char_type(<<text[c]>>)
    THEN RunStart(text, c - 1)
    ELSE c - 1

\* the position where the run of the class of the character just after c
\* ends
RECURSIVE RunEnd(_, _)
RunEnd(text, c) ==
    IF c + 1 < Len(text)
       /\ get_char_type(<<text[c + 2]>>) = get_char_type(<<text[c + 1]>>)
    THEN RunEnd(text, c + 1)
    ELSE c + 1

\* a collapsed cursor of st with a Punctuation or Other character before
\* (Backwards) or after (Forwards) it
CursorNextToWordChar(st, direction) ==
    With(to_raw_text(st.dom), LAMBDA text :
      /\ st.start = st.end
      /\ Len(text) = Dom_text_len(st.dom)
      /\ IF direction = "Backwards"
         THEN /\ 0 < st.start /\ st.start <= Len(text)
              /\ get_char_type(<<text[st.start]>>)
                    \in {"Punctuation", "Other"}
         ELSE /\ 0 <= st.start /\ st.start < Len(text)
              /\ get_char_type(<<text[st.start + 1]>>)
                    \in {"Punctuation", "Other"})

\* the text of pre without the run next to its cursor
WithoutRun(pre, direction) ==
    With(to_raw_text(pre.dom), LAMBDA text :
      IF direction = "Backwards"
      THEN SubSeq(text, 1, RunStart(text, pre.start))
           \o SubSeq(text, pre.start + 1, Len(text))
      ELSE SubSeq(text, 1, pre.start)
           \o SubSeq(text, RunEnd(text, pre.start) + 1, Len(text)))

\* C20: with a collapsed cursor next to a Punctuation or Other character,
\* backspace_word (respectively delete_word) deletes exactly the maximal
\* contiguous run of characters of that class before (respectively after)
\* the cursor, also when the run continues across a text-node boundary, and
\* deletes nothing else.
C20_WordRunDeleted ==
    /\ (last.cmd = "backspace_word"
           /\ CursorNextToWordChar(last.pre, "Backwards"))
          => to_raw_text(dom) = WithoutRun(last.pre, "Backwards")
    /\ (last.cmd = "delete_word"
           /\ CursorNextToWordChar(last.pre, "Forwards"))
          => to_raw_text(dom) = WithoutRun(last.pre, "Forwards")

\* backspace_word does not fail with the cursor after a word character
C20_BackspaceWordReturns ==
    CursorNextToWordChar(CurState, "Backwards")
        => \A overflow_checks \in BOOLEAN :
              ~backspace_word(CurState, overflow_checks).fault

\* reached where backspace_word deleted the whole run before the cursor
C20_RunInsideOneNode ==
    /\ last.cmd = "backspace_word"
    /\ CursorNextToWordChar(last.pre, "Backwards")
    /\ to_raw_text(dom) = WithoutRun(last.pre, "Backwards")
    /\ to_raw_text(dom) # to_raw_text(last.pre.dom)

\* the class of one character of the flat text, where the character of a
\* LineBreak node is a class of its own
ClassOf(ch) == IF ch = "\n" THEN "Newline" ELSE get_char_type(<<ch>>)

\* the largest k >= c with text[c + 1 .. k] all of the class
RECURSIVE RunForwards(_, _, _)
RunForwards(text, c, class) ==
    IF c < Len(text) /\ ClassOf(text[c + 1]) = class
    THEN RunForwards(text, c + 1, class)
    ELSE c

\* the smallest k <= c with text[k + 1 .. c] all of the class
RECURSIVE RunBackwards(_, _, _)
RunBackwards(text, c, class) ==
    IF c > 0 /\ ClassOf(text[c]) = class
    THEN RunBackwards(text, c - 1, class)
    ELSE c

\* where the deletion that starts in whitespace at c has to stop
WhitespaceDeletionEnd(text, c, direction) ==
    IF direction = "Forwards"
    THEN With(RunForwards(text, c, "Whitespace"), LAMBDA k :
           IF k = Len(text) THEN k
           ELSE IF ClassOf(text[k + 1]) = "Newline" THEN k + 1
           ELSE RunForwards(text, k, ClassOf(text[k + 1])))
    ELSE With(RunBackwards(text, c, "Whitespace"), LAMBDA k :
           IF k = 0 THEN k
           ELSE IF ClassOf(text[k]) = "Newline" THEN k - 1
           ELSE RunBackwards(text, k, ClassOf(text[k])))

\* a collapsed cursor of st with a Whitespace character before (Backwards)
\* or after (Forwards) it
CursorNextToWhitespace(st, direction) ==
    With(to_raw_text(st.dom), LAMBDA text :
      /\ st.start = st.end
      /\ Len(text) = Dom_text_len(st.dom)
      /\ IF direction = "Backwards"
         THEN /\ 0 < st.start /\ st.start <= Len(text)
              /\ ClassOf(text[st.start]) = "Whitespace"
         ELSE /\ 0 <= st.start /\ st.start < Len(text)
              /\ ClassOf(text[st.start + 1]) = "Whitespace")

\* the text of pre without what the whitespace arm has to delete
WithoutWhitespaceRun(pre, direction) ==
    With(to_raw_text(pre.dom), LAMBDA text :
    With(WhitespaceDeletionEnd(text, pre.start, direction), LAMBDA k :
      IF direction = "Forwards"
      THEN SubSeq(text, 1, pre.start) \o SubSeq(text, k + 1, Len(text))
      ELSE SubSeq(text, 1, k) \o SubSeq(text, pre.start + 1, Len(text))))

\* C21: with a collapsed cursor next to a Whitespace character,
\* backspace_word and delete_word delete the whole whitespace run in their
\* direction; if that run ends at a LineBreak the LineBreak is deleted too
\* and nothing more, otherwise the run of one non-whitespace class that
\* follows is deleted as well and the deletion stops there.
C21_WhitespaceRunDeleted ==
    /\ (last.cmd = "backspace_word"
           /\ CursorNextToWhitespace(last.pre, "Backwards"))
          => to_raw_text(dom) = WithoutWhitespaceRun(last.pre, "Backwards")
    /\ (last.cmd = "delete_word"
           /\ CursorNextToWhitespace(last.pre, "Forwards"))
          => to_raw_text(dom) = WithoutWhitespaceRun(last.pre, "Forwards")

\* reached where delete_word deleted the whitespace and the run after it
C21_DeleteWordDoesIt ==
    /\ last.cmd = "delete_word"
    /\ CursorNextToWhitespace(last.pre, "Forwards")
    /\ to_raw_text(dom) = WithoutWhitespaceRun(last.pre, "Forwards")
    /\ Len(to_raw_text(dom)) + 2 <= Len(to_raw_text(last.pre.dom))

\* the html of a sequence of nodes
HtmlOf(nodes) == fmt_html_children(nodes, 1)

NonEmptyParagraph(n) ==
    n.t = "container" /\ n.kind = "paragraph" /\ to_raw_text(n) # <<>>

\* the cursor of st is in an empty Paragraph that sits inside a Quote
\* between two non-empty paragraphs
InEmptyParagraphOfQuote(st) ==
    /\ st.start = st.end
    /\ InText(st)
    /\ find_range(st.dom, st.start, st.end).locations # <<>>
    /\ With(deepest_block_node(find_range(st.dom, st.start, st.end)),
            LAMBDA loc :
       With(loc.node_handle, LAMBDA ph :
         /\ loc.kind = "paragraph"
         /\ lookup_node(st.dom, ph).children = <<>>
         /\ Len(ph.path) >= 2
         /\ With(lookup_node(st.dom, parent_handle(ph)), LAMBDA qn :
              /\ qn.kind = "quote"
              /\ 0 < index_in_parent(ph)
              /\ index_in_parent(ph) + 1 < Len(qn.children)
              /\ NonEmptyParagraph(qn.children[index_in_parent(ph)])
              /\ NonEmptyParagraph(
                     qn.children[index_in_parent(ph) + 2]))))

\* post is pre with the Quote around the empty Paragraph at ph cut in two:
\* a Quote with the paragraphs before, an empty Paragraph, a Quote with the
\* paragraphs after, in the place the Quote had
QuoteSplit(pre, ph, post) ==
    With(parent_handle(ph), LAMBDA qh :
    With(lookup_node(pre, qh), LAMBDA qn :
    With(lookup_node(pre, parent_handle(qh)), LAMBDA outer :
    With(index_in_parent(qh) + 1, LAMBDA q :
    With(index_in_parent(ph), LAMBDA i :
      /\ contains(post, parent_handle(qh))
      /\ With(lookup_node(post, parent_handle(qh)).children, LAMBDA now :
           /\ Len(now) = Len(outer.children) + 2
           /\ HtmlOf(SubSeq(now, 1, q - 1))
                 = HtmlOf(SubSeq(outer.children, 1, q - 1))
           /\ now[q].kind = "quote"
           /\ HtmlOf(now[q].children) = HtmlOf(SubSeq(qn.children, 1, i))
           /\ now[q + 1].kind = "paragraph"
           /\ now[q + 1].children = <<>>
           /\ now[q + 2].kind = "quote"
           /\ HtmlOf(now[q + 2].children)
                 = HtmlOf(SubSeq(qn.children, i + 2,
                                 Len(qn.children)))
           /\ HtmlOf(SubSeq(now, q + 3, Len(now)))
                 = HtmlOf(SubSeq(outer.children, q + 1,
                                 Len(outer.children))))
      /\ to_raw_text(post) = to_raw_text(pre))))))

\* the handle the empty Paragraph has after the split
OuterParagraphHandle(ph) == next_sibling(parent_handle(ph))

\* C22: new_line with the cursor in an empty Paragraph that sits inside a
\* Quote between two non-empty paragraphs splits the Quote in two: the
\* result is, in order, a Quote with the paragraphs before, an empty
\* Paragraph at the outer level holding the cursor, and a Quote with the
\* paragraphs after; no paragraph content is lost.  The command does not
\* fail there.
C22_NewLineSplitsQuote ==
    /\ (last.cmd = "new_line" /\ InEmptyParagraphOfQuote(last.pre)) =>
          /\ QuoteSplit(last.pre.dom, EmptyItemHandle(last.pre), dom)
          /\ CursorInside(CurState,
                 OuterParagraphHandle(EmptyItemHandle(last.pre)))
    /\ InEmptyParagraphOfQuote(CurState) => ~new_line(CurState).fault

\* reached after new_line has split a Quote that held formatted text
C22_Witness ==
    /\ last.cmd = "new_line"
    /\ InEmptyParagraphOfQuote(last.pre)
    /\ QuoteSplit(last.pre.dom, EmptyItemHandle(last.pre), dom)
    /\ Len(dom.children) = 3
    /\ HtmlOf(dom.children[1].children) = <<"<p>", "<em>", "a", "</em>", "</p>">>

MenuCommands == {"select", "format", "backspace", "clear"}

Buttons ==
    {"Bold", "Italic", "StrikeThrough", "Underline", "InlineCode", "Link",
     "OrderedList", "UnorderedList"}

\* the container is of the kind the button stands for
IsOfButton(n, button) ==
    /\ n.t = "container"
    /\ \/ n.kind \in FormatKinds /\ ButtonOf(n.kind) = button
       \/ n.kind = "link" /\ button = "Link"
       \/ n.kind = "list" /\ n.name = "ol" /\ button = "OrderedList"
       \/ n.kind = "list" /\ n.name = "ul" /\ button = "UnorderedList"

\* the node at the handle has an ancestor container of the kind
HasAncestorOfButton(d, h, button) ==
    \E k \in 0..(Len(h.path) - 1) :
        IsOfButton(LookupPath(d, SubSeq(h.path, 1, k)), button)

\* the text leaves of the selection of st
SelectedTextLeaves(st) ==
    With(leaves(find_range(st.dom, safe_selection(st).s,
                           safe_selection(st).e)), LAMBDA ls :
      {ls[i].node_handle : i \in {j \in 1..Len(ls) : ls[j].kind = "text"}})

SpansSeveralNodes(st) ==
    /\ InText(st)
    /\ RangeKind(find_range(st.dom, safe_selection(st).s,
                            safe_selection(st).e)) = "MultipleNodes"
    /\ SelectedTextLeaves(st) # {}

\* C23: for a selection that spans several nodes, a formatting, link or
\* list action is reported as active exactly when every text leaf in the
\* selection has an ancestor container of that kind; a single selected text
\* leaf without such an ancestor makes the action not active.
C23_ActiveIffEveryLeaf ==
    (last.cmd \in MenuCommands /\ SpansSeveralNodes(CurState))
      => \A button \in Buttons :
            button \in toolbar.active_buttons
              <=> \A h \in SelectedTextLeaves(CurState) :
                     HasAncestorOfButton(dom, h, button)

\* reached with two text leaves selected, both under Bold and only one of
\* them under Italic
C23_Witness ==
    /\ last.cmd = "select"
    /\ SpansSeveralNodes(CurState)
    /\ Cardinality(SelectedTextLeaves(CurState)) = 2
    /\ toolbar.active_buttons = {"Bold"}
    /\ \E h \in SelectedTextLeaves(CurState) :
          HasAncestorOfButton(dom, h, "Italic")

\* the leaves of the selection of st, line breaks among them
SelectedLeaves(st) ==
    With(leaves(find_range(st.dom, safe_selection(st).s,
                           safe_selection(st).e)), LAMBDA ls :
      {ls[i].node_handle : i \in 1..Len(ls)})

\* the states of the selection of st: the buttons whose kind of container
\* holds the one selected leaf, or every selected text leaf when several
\* leaves are selected; no button when nothing is selected
StatesOfSelection(st) ==
    With(IF Cardinality(SelectedLeaves(st)) = 1 THEN SelectedLeaves(st)
         ELSE SelectedTextLeaves(st), LAMBDA hs :
      {button \in Buttons :
          /\ hs # {}
          /\ \A h \in hs : HasAncestorOfButton(st.dom, h, button)})

C24_OnResolvedSelection ==
    (last.cmd \in MenuCommands /\ SelectedLeaves(CurState) # {})
      => /\ toolbar.kind = "Keep"
              <=> StatesOfSelection(CurState) = toolbar.stored
         /\ toolbar.active_buttons = StatesOfSelection(CurState)

\* two commands in a row that both returned Update
C24_TwoUpdates ==
    /\ last.cmd \in MenuCommands
    /\ toolbar.kind = "Update"
    /\ toolbar.prev_kind = "Update"

\* Keep on an empty Dom while a button is still stored as active
C24_StaleKeep ==
    /\ last.cmd = "clear"
    /\ toolbar.kind = "Keep"
    /\ toolbar.active_buttons # {}
    /\ dom.children = <<>>

\* the selection covers leaves, and none of them is a text node
NoTextSelected(st) ==
    /\ Cardinality(SelectedLeaves(st)) > 1
    /\ SelectedTextLeaves(st) = {}

\* C30: compute_menu_state completes without fault for every selection the
\* Dom resolves, a selection over several nodes without any text node
\* included.
C30_MenuStateCompletes ==
    ~compute_menu_state_buttons(CurState, toolbar.active_buttons).fault

\* it completes whenever a text node is among the selected nodes or a
\* single leaf is selected
C30_CompletesWithText ==
    (SelectedTextLeaves(CurState) # {}
       \/ Cardinality(SelectedLeaves(CurState)) = 1)
      => ~compute_menu_state_buttons(CurState, toolbar.active_buttons).fault

\* two line breaks selected and no text
C30_OnlyLineBreaks ==
    /\ NoTextSelected(CurState)
    /\ start = 0 /\ end = 2
    /\ Len(dom.children) = 2
    /\ \A i \in 1..2 : dom.children[i].t = "br"

----------------------------------------------------------------------------
(* adjust_handles_for_delete on its own: a list of handles and the handle  *)
(* of the node that was deleted.                                            *)

MaxHandles == 2
MaxDepth == 3
MaxIndex == 2

\* the paths of at most MaxDepth indices
PathsOf(depth) ==
    UNION {[1..k -> 0..MaxIndex] : k \in 0..depth}

HandleLists ==
    UNION {[1..k -> {from_raw(AsSeq(q)) : q \in PathsOf(MaxDepth)}]
             : k \in 0..MaxHandles}

\* the variables of the composer model, which a call of a function on its
\* own does not touch
NoModel ==
    /\ dom = Dom_new /\ start = 0 /\ end = 0
    /\ previous_states = <<>> /\ next_states = <<>>
    /\ action_states = NoActionStates
    /\ fault = FALSE
    /\ last = FirstLast("new")
    /\ node = Dom_new /\ steps = 0
    /\ toolbar = NoMenu

ModelUnchanged ==
    UNCHANGED <<dom, start, end, previous_states, next_states,
                action_states, fault, last, node, steps, toolbar>>

InitHandles ==
    \E handles \in HandleLists, q \in PathsOf(MaxDepth - 1) \ {<<>>} :
        /\ NoModel
        /\ call = [NoCall EXCEPT
                     !.fn = "adjust_handles_for_delete",
                     !.args = <<AsSeq(handles), from_raw(AsSeq(q))>>]

AdjustHandles ==
    /\ call.fn = "adjust_handles_for_delete" /\ ~call.done
    /\ With(adjust_handles_for_delete(call.args[1], call.args[2]),
            LAMBDA r :
         call' = [call EXCEPT !.out = r.handles, !.fault = r.fault,
                              !.done = TRUE])
    /\ ModelUnchanged

NextHandles == AdjustHandles

SpecHandles == InitHandles /\ [][NextHandles]_vars

\* h is the node at d or lies below it
AtOrBelow(h, d) == IsPrefix(d.path, h.path)

\* h is a later sibling of d or lies below one
AfterSibling(h, d) ==
    /\ Len(h.path) >= Len(d.path)
    /\ IsPrefix(parent_handle(d).path, h.path)
    /\ h.path[Len(d.path)] > index_in_parent(d)

\* what is to become of the handles of the list, one after the other
RECURSIVE HandlesAfterDelete(_, _)
HandlesAfterDelete(handles, d) ==
    IF handles = <<>> THEN <<>>
    ELSE (IF AtOrBelow(Head(handles), d) THEN <<>>
          ELSE IF AfterSibling(Head(handles), d)
          THEN <<[Head(handles) EXCEPT !.path[Len(d.path)] = @ - 1]>>
          ELSE <<Head(handles)>>)
         \o HandlesAfterDelete(Tail(handles), d)

Adjusted == call.fn = "adjust_handles_for_delete" /\ call.done

\* C25: adjust_handles_for_delete(handles, d) removes the handles at or
\* below d, lowers by one the index at d's depth of the handles that are
\* later siblings of d or lie below one, leaves every other handle as it is
\* (earlier siblings, the parent of d, other subtrees), keeps the order of
\* the handles that remain, and completes without fault.
C25_AdjustHandles ==
    Adjusted
      => /\ ~call.fault
         /\ call.out = HandlesAfterDelete(call.args[1], call.args[2])

\* the same for a list that does not hold the parent of d
C25_WithoutParent ==
    (Adjusted /\ \A i \in 1..Len(call.args[1]) :
                    call.args[1][i] # parent_handle(call.args[2]))
      => /\ ~call.fault
         /\ call.out = HandlesAfterDelete(call.args[1], call.args[2])

\* a handle removed and a later one lowered, in a list of two
C25_RemovedAndLowered ==
    /\ Adjusted /\ ~call.fault
    /\ call.args[2].path = <<0, 1>>
    /\ call.args[1] = <<from_raw(<<0, 1, 0>>), from_raw(<<0, 2, 0>>)>>
    /\ call.out = <<from_raw(<<0, 1, 0>>)>>

\* the parent of d is in the list
C25_ParentInList ==
    /\ Adjusted
    /\ call.args[1] = <<parent_handle(call.args[2])>>
    /\ call.fault

----------------------------------------------------------------------------
(* insert_node_at_range.rs: a node put into the Dom at the cursor.         *)

\* Dom::append: the node becomes the last child of the container
Dom_append(d, parent, n) ==
    IF contains(d, parent) /\ lookup_node(d, parent).t = "container"
    THEN [dom |-> store_node(d, parent,
                      append_child(lookup_node(d, parent), n)),
          fault |-> FALSE]
    ELSE [dom |-> d, fault |-> TRUE]

\* Dom::insert_into_text: the text is cut at the offset and the node put
\* between the two halves
insert_into_text(d, h, offset, n) ==
    With(lookup_node(d, h), LAMBDA tn :
      IF tn.t # "text" \/ ~has_parent(h) THEN [dom |-> d, fault |-> TRUE]
      ELSE [dom |-> store_node(d, parent_handle(h),
                       replace_child(lookup_node(d, parent_handle(h)),
                           index_in_parent(h),
                           <<T(slice_to(tn.data, offset)), n,
                             T(slice_from(tn.data, offset))>>)),
            fault |-> FALSE])

insert_node_at_cursor(d, range, new_node) ==
    With(leaves(range), LAMBDA ls :
      IF ls # <<>>
      THEN IF ls[1].start_offset = 0
           THEN insert_at(d, ls[1].node_handle, new_node)
           ELSE IF ls[1].start_offset = ls[1].length
           THEN Dom_append(d, parent_handle(ls[1].node_handle), new_node)
           ELSE insert_into_text(d, ls[1].node_handle, ls[1].start_offset,
                                 new_node)
      ELSE IF range.locations = <<>>
      THEN Dom_append(d, Dom_new.handle, new_node)
      ELSE Dom_append(d, range.locations[1].node_handle, new_node))

\* insert_node_at_selection does nothing yet
insert_node_at_range(d, range, new_node) ==
    IF range.start = range.end
    THEN insert_node_at_cursor(d, range, new_node)
    ELSE [dom |-> d, fault |-> FALSE]

InsertHtmls ==
    {"", "ab", "a<br /><br />b", "a<strong>b</strong>", "<b>a</b>",
     "<b></b>", "ab<em>c</em>", "<b>a<em>b</em></b>", "<br /><br />",
     "<em><a href=\"A\">ab</a>c</em>"}

InitInsert ==
    \E html \in InsertHtmls, s \in 0..(MaxSel + 1) :
        /\ dom = from_html(html, s, s).dom
        /\ start = s /\ end = s
        /\ action_states = NoActionStates
        /\ previous_states = <<>> /\ next_states = <<>>
        /\ fault = FALSE
        /\ last = FirstLast("from_html")
        /\ node = Dom_new /\ steps = 0
        /\ toolbar = NoMenu
        /\ call = NoCall

\* the tests' call: the range of the selection, and an empty paragraph
InsertNodeAtRange ==
    /\ Ready
    /\ With(insert_node_at_range(dom,
                find_range(dom, safe_selection(CurState).s,
                           safe_selection(CurState).e),
                new_paragraph(<<>>)), LAMBDA r :
         Apply(Outcome(State(r.dom, start, end), r.fault, <<>>, FALSE),
               Last("insert_node_at_range", <<>>, start, end, "", 0)))

NextInsert ==
    \/ \E s \in 0..(MaxSel + 1) : Select(s, s)
    \/ InsertNodeAtRange

SpecInsert == InitInsert /\ [][NextInsert]_vars

\* the content of a node in document order: the tags of the containers and
\* the characters and line breaks between them
RECURSIVE Flat(_), FlatChildren(_)
Flat(n) ==
    IF n.t = "text" THEN n.data
    ELSE IF n.t = "br" THEN <<"<br />">>
    ELSE (IF n.name # "" THEN <<"<" \o n.name \o ">">> ELSE <<>>)
         \o FlatChildren(n.children)
         \o (IF n.name # "" THEN <<"</" \o n.name \o ">">> ELSE <<>>)
FlatChildren(cs) ==
    IF cs = <<>> THEN <<>> ELSE Flat(Head(cs)) \o FlatChildren(Tail(cs))

\* how much of Flat(n) comes before the node at path q below n
RECURSIVE FlatBefore(_, _)
FlatBefore(n, q) ==
    IF q = <<>> THEN 0
    ELSE (IF n.name # "" THEN 1 ELSE 0)
         + Len(FlatChildren(SubSeq(n.children, 1, q[1])))
         + FlatBefore(n.children[q[1] + 1], Tail(q))

\* where the claim puts the new node in Flat(st.dom)
PlaceAtCursor(st) ==
    With(find_range(st.dom, safe_selection(st).s, safe_selection(st).e),
         LAMBDA range :
      IF leaves(range) # <<>>
      THEN FlatBefore(st.dom, leaves(range)[1].node_handle.path)
           + leaves(range)[1].start_offset
      ELSE IF range.locations = <<>> THEN Len(Flat(st.dom))
      ELSE With(range.locations[1].node_handle, LAMBDA h :
             FlatBefore(st.dom, h.path) + Len(Flat(lookup_node(st.dom, h)))
                - (IF lookup_node(st.dom, h).name # "" THEN 1 ELSE 0)))

InsertedAt(before, k, after) ==
    after = SubSeq(before, 1, k) \o Flat(new_paragraph(<<>>))
               \o SubSeq(before, k + 1, Len(before))

\* the cursor is at the end of a leaf that has a later sibling
AtEndBeforeSibling(st) ==
    With(leaves(find_range(st.dom, safe_selection(st).s,
                           safe_selection(st).e)), LAMBDA ls :
      /\ ls # <<>>
      /\ ls[1].start_offset = ls[1].length /\ ls[1].length > 0
      /\ contains(st.dom, next_sibling(ls[1].node_handle)))

\* C26: insert_node_at_range with a collapsed cursor puts the new node
\* exactly at the cursor: before the leaf when the cursor is at its start,
\* right after the leaf and before any later sibling when it is at its end,
\* between the halves of the text when it is inside, and as the last child
\* of the first located container or of the document when there is no
\* leaf; the content there was keeps its order.
C26_InsertedAtCursor ==
    last.cmd = "insert_node_at_range"
      => InsertedAt(Flat(last.pre.dom), PlaceAtCursor(last.pre), Flat(dom))

\* the same when the leaf of the cursor has no later sibling
C26_WithoutLaterSibling ==
    (last.cmd = "insert_node_at_range" /\ ~AtEndBeforeSibling(last.pre))
      => InsertedAt(Flat(last.pre.dom), PlaceAtCursor(last.pre), Flat(dom))

\* the content there was keeps its order wherever the node goes
C26_ContentKept ==
    last.cmd = "insert_node_at_range"
      => \E k \in 0..Len(Flat(last.pre.dom)) :
            InsertedAt(Flat(last.pre.dom), k, Flat(dom))

\* the node went to the end of the parent, past the later siblings
C26_PastSiblings ==
    /\ last.cmd = "insert_node_at_range"
    /\ AtEndBeforeSibling(last.pre)
    /\ Flat(last.pre.dom) = <<"a", "<br />", "<br />", "b">>
    /\ Flat(dom) = <<"a", "<br />", "<br />", "b", "<p>", "</p>">>

\* the node went between the halves of a text
C26_InsideText ==
    /\ last.cmd = "insert_node_at_range"
    /\ Flat(dom) = <<"a", "<p>", "</p>", "b">>

----------------------------------------------------------------------------
(* The two classifiers of characters, on one character at a time.          *)

\* the code points the classifiers are asked about: Latin-1 and the
\* spaces and marks beyond it
Chars ==
    (0..255) \cup {5760} \cup (8192..8205) \cup {8232, 8233, 8239, 8287,
                                               12288, 65279}

InitChars ==
    \E c \in Chars :
        /\ NoModel
        /\ call = [NoCall EXCEPT !.fn = "get_char_type", !.args = <<c>>]

Classify ==
    /\ call.fn = "get_char_type" /\ ~call.done
    /\ call' = [call EXCEPT
                  !.out = <<char_type(call.args[1]),
                            TextNode_get_char_type(call.args[1])>>,
                  !.done = TRUE]
    /\ ModelUnchanged

NextChars == Classify

SpecChars == InitChars /\ [][NextChars]_vars

\* ! " # $ % & ' ( ) * + , - . /  : ; < = > ? @  [ \ ] ^ _ `  { | } ~
AsciiPunctuation ==
    {33, 34, 35, 36, 37, 38, 39, 40, 41, 42, 43, 44, 45, 46, 47,
     58, 59, 60, 61, 62, 63, 64, 91, 92, 93, 94, 95, 96, 123, 124, 125, 126}

\* 0-9, A-Z, a-z
LettersAndDigits == (48..57) \cup (65..90) \cup (97..122)

Classified == call.fn = "get_char_type" /\ call.done

ClassRequired(c) ==
    IF c \in {32, 160} THEN "Whitespace"
    ELSE IF c \in AsciiPunctuation \cup {Pound} THEN "Punctuation"
    ELSE IF c \in LettersAndDigits THEN "Other"
    ELSE "Any"

\* C27: the classification used by word deletion puts U+0020 and U+00A0 in
\* Whitespace, the ASCII punctuation characters and the pound sign in
\* Punctuation, and letters and digits in Other; the classifier of
\* delete_text.rs and the one of text_node.rs agree on every character.
C27_ClassifiersAgree ==
    Classified
      => /\ call.out[1] = call.out[2]
         /\ ClassRequired(call.args[1]) # "Any"
              => call.out[1] = ClassRequired(call.args[1])

\* the classifier of delete_text.rs does what is required of it
C27_DeleteTextClassifier ==
    (Classified /\ ClassRequired(call.args[1]) # "Any")
      => call.out[1] = ClassRequired(call.args[1])

\* the two agree on every character but the pound sign and U+200B
C27_AgreeButOnTwo ==
    (Classified /\ call.args[1] \notin {Pound, 8203})
      => call.out[1] = call.out[2]

\* the pound sign, classified by both
C27_PoundSign ==
    /\ Classified
    /\ call.args[1] = Pound
    /\ call.out = <<"Punctuation", "Other">>

----------------------------------------------------------------------------
(* delete_nodes on its own: a Dom and the handles of some of its leaves,   *)
(* in document order, as replace_in_text_nodes collects them.              *)

DeleteHtmls ==
    {"ab", "a<br /><br />b", "a<strong>b</strong>", "<b>a</b>",
     "ab<em>c</em>", "<b>a<em>b</em></b>", "<br /><br />",
     "<ul><li>~a</li><li>~</li></ul>", "a<a href=\"A\">bc</a>",
     "<em><a href=\"A\">ab</a>c</em>",
     "<blockquote><p>a</p><p></p><p>b</p></blockquote>",
     "<blockquote><p>a</p><p>b</p></blockquote>", "<ol><li>~a</li></ol>",
     "<blockquote><p><em>a</em></p><p></p><p>b</p></blockquote>"}

LeafPaths(d) ==
    {Walk(d, 0)[i].node_handle.path :
        i \in {j \in 1..Len(Walk(d, 0)) : Walk(d, 0)[j].is_leaf}}

\* the handles of the leaves at the paths, in document order
RECURSIVE HandlesOf(_)
HandlesOf(locations) ==
    IF locations = <<>> THEN <<>>
    ELSE <<Head(locations).node_handle>> \o HandlesOf(Tail(locations))

InitDelete ==
    \E html \in DeleteHtmls :
      \E paths \in SUBSET LeafPaths(parse(html).dom) :
        /\ dom = parse(html).dom
        /\ start = 0 /\ end = 0
        /\ previous_states = <<>> /\ next_states = <<>>
        /\ action_states = NoActionStates
        /\ fault = FALSE
        /\ last = FirstLast("from_html")
        /\ node = Dom_new /\ steps = 0
        /\ toolbar = NoMenu
        /\ call = [NoCall EXCEPT
                     !.fn = "delete_nodes",
                     !.args = <<HandlesOf(SeqSelect(Walk(parse(html).dom, 0),
                                                    paths))>>]

\* a panic leaves nothing of the Dom to look at
DeleteNodes ==
    /\ call.fn = "delete_nodes" /\ ~call.done
    /\ With(delete_nodes(dom, call.args[1]), LAMBDA r :
         /\ dom' = IF r.fault THEN dom ELSE r.dom
         /\ call' = [call EXCEPT !.fault = r.fault, !.done = TRUE]
         /\ last' = [last EXCEPT !.cmd = "delete_nodes",
                                 !.pre = State(dom, 0, 0)])
    /\ UNCHANGED <<start, end, previous_states, next_states, action_states,
                   fault, node, steps, toolbar>>

NextDelete == DeleteNodes

SpecDelete == InitDelete /\ [][NextDelete]_vars

\* the children of the node at path q once the nodes at the paths are
\* gone, and with them the containers they leave without children
RECURSIVE Pruned(_, _, _), PrunedChildren(_, _, _, _)
Pruned(n, q, paths) ==
    IF n.t # "container" THEN n
    ELSE [n EXCEPT !.children = PrunedChildren(n.children, 1, q, paths)]
PrunedChildren(cs, i, q, paths) ==
    IF i > Len(cs) THEN <<>>
    ELSE (IF Append(q, i - 1) \in paths THEN <<>>
          ELSE IF /\ cs[i].t = "container"
                  /\ cs[i].children # <<>>
                  /\ Pruned(cs[i], Append(q, i - 1), paths).children = <<>>
          THEN <<>>
          ELSE <<Pruned(cs[i], Append(q, i - 1), paths)>>)
         \o PrunedChildren(cs, i + 1, q, paths)

PathsIn(handles) == {handles[i].path : i \in 1..Len(handles)}

DeletedNodes == call.fn = "delete_nodes" /\ call.done

\* C28: delete_nodes(to_delete) terminates, removes each listed node and
\* then every container these removals left without children, and never
\* attempts to remove the root, also when the root itself is left without
\* children.
C28_DeleteNodesPrunes ==
    DeletedNodes
      => /\ ~call.fault
         /\ Flat(dom) = Flat(Pruned(last.pre.dom, <<>>, PathsIn(call.args[1])))
         /\ HandlesAgree(dom)

\* the same when something is left in the root
C28_RootNotEmptied ==
    (DeletedNodes
       /\ Pruned(last.pre.dom, <<>>, PathsIn(call.args[1])).children # <<>>)
      => /\ ~call.fault
         /\ Flat(dom) = Flat(Pruned(last.pre.dom, <<>>, PathsIn(call.args[1])))
         /\ HandlesAgree(dom)

\* a container left without children went with its last child
C28_ContainerRemoved ==
    /\ DeletedNodes /\ ~call.fault
    /\ Flat(last.pre.dom) = <<"a", "b", "<em>", "c", "</em>">>
    /\ Flat(dom) = <<"a", "b">>

\* two line breaks were all the root had, and both are listed
C28_RootLeftEmpty ==
    /\ DeletedNodes
    /\ call.fault
    /\ Flat(last.pre.dom) = <<"<br />", "<br />">>
    /\ Len(call.args[1]) = 2

\* a collapsed cursor within the text of a composer that has not panicked
CollapsedCursor == ~fault /\ start = end /\ InText(CurState)

\* C29: with a collapsed cursor backspace_word and delete_word never go
\* outside the text with the range they delete and never fault on index
\* arithmetic, whatever the text and the place of the cursor, also after
\* whitespace at the very start of the text and at offset 0 of a text node
\* that is not the first leaf.
C29_WordDeletionInRange ==
    CollapsedCursor
      => /\ \A overflow_checks \in BOOLEAN :
               ~backspace_word(CurState, overflow_checks).fault
         /\ ~delete_word(CurState).fault
         /\ get_end_index_of_run(CurState, "Forwards").index
               <= Max(Dom_text_len(dom), 1)

\* delete_word, which only goes forwards, keeps to the text
C29_DeleteWordInRange ==
    CollapsedCursor
      => /\ ~delete_word(CurState).fault
         /\ get_end_index_of_run(CurState, "Forwards").index
               <= Max(Dom_text_len(dom), 1)

\* backspace_word keeps to the text where the leaf of the cursor has a
\* character before the cursor
C29_BackspaceWordInsideLeaf ==
    (CollapsedCursor
       /\ first_leaf(find_range(dom, start, end)) # <<>>
       /\ first_leaf(find_range(dom, start, end))[1].start_offset > 0)
      => \A overflow_checks \in BOOLEAN :
            ~backspace_word(CurState, overflow_checks).fault

\* the cursor after a space that begins the text: nothing goes wrong
C29_AfterLeadingSpace ==
    /\ CollapsedCursor
    /\ start = 1
    /\ to_raw_text(dom) # <<>> /\ to_raw_text(dom)[1] = " "
    /\ ~backspace_word(CurState, TRUE).fault

\* the cursor at offset 0 of a text node with another leaf before it
C29_AtStartOfLaterLeaf ==
    /\ CollapsedCursor
    /\ start = 1
    /\ first_leaf(find_range(dom, start, end)) # <<>>
    /\ first_leaf(find_range(dom, start, end))[1].kind = "text"
    /\ first_leaf(find_range(dom, start, end))[1].start_offset = 0
    /\ backspace_word(CurState, TRUE).fault
    /\ ~backspace_word(CurState, FALSE).fault

====
